---------------------------- MODULE Spec2Model ----------------------------
(***************************************************************************)
(* A model of the rating-workbench mapping and persistence core:           *)
(*   - MapperRegistry            (backend/app/mappers/mapper_registry.py)  *)
(*   - AcmeCommercialPackageMapper                                         *)
(*                 (backend/app/mappers/acme_commercial_package_mapper.py) *)
(*   - JSONFileRepository / MongoDBRepository (backend/app/repositories)   *)
(*   - PolicyTransactionService  (backend/app/services)                    *)
(*                                                                         *)
(* Python values are represented as follows.  A str is a TLA+ string; None *)
(* is the value None below; a dict is a function from its keys; a list is  *)
(* a sequence; a pydantic model instance is a record of its fields; an     *)
(* exception raised by a call is a result record [kind |-> "raise", ...].  *)
(***************************************************************************)
EXTENDS Integers, Sequences, FiniteSets, TLC

VARIABLES
    mappers,    \* MapperRegistry._mappers: insertion-ordered dict, as a sequence of [key, cls]
    regLast,    \* the last registry call: its name, arguments, result and the dict before it
    now,        \* the clock datetime.utcnow() reads, in microseconds
    mapIn,      \* the Custom Model instance handed to the mapper
    mapCommon,  \* the result of to_common(mapIn), once called
    mapBack,    \* the result of to_custom on that Common Record, once called
    backend,    \* the repository implementation in use: "json" or "mongo"
    file,       \* JSONFileRepository: the list of dicts policy_transactions.json holds
    disk,       \* whether policy_transactions.json is there and is JSON: "ok", "missing"
                \* or "undecodable" (file is then what it held when it last was)
    procs,      \* JSONFileRepository in several processes: for each, where its mutating
                \* call stands and the data it has read
    httpIn,     \* the last HTTP request received
    httpLast,   \* the handler that request was routed to and the response it got
    coll,       \* MongoDBRepository: the documents of the collection, in insertion order
    uuids,      \* how many identifiers uuid.uuid4() has generated
    born,       \* history: for each stored record, in order, the id and created_at
                \* it was created with
    repoLast,   \* the last repository call: name, arguments, result, the store before
                \* it and the clock reading at it
    svcLast     \* the last PolicyTransactionService call, likewise

regVars == <<mappers, regLast>>
mapVars == <<mapIn, mapCommon, mapBack>>
repoVars == <<backend, file, coll, uuids, born, repoLast>>
ioVars == <<disk, procs, httpIn, httpLast>>
vars == <<regVars, now, mapVars, repoVars, svcLast, ioVars>>

(***************************************************************************)
(* Generic helpers.                                                        *)
(***************************************************************************)
Range(s) == {s[i] : i \in DOMAIN s}

\* An Optional[T] value is a sequence: None is the empty one, a present value v is <<v>>.
None == <<>>
Some(v) == <<v>>
IsNone(o) == Len(o) = 0

\* A call that returns None.
ReturnsNone == [kind |-> "None"]

\* A call that returns the value v.
Return(v) == [kind |-> "return", value |-> v]

\* A raised exception, as the result of a call.
Raise(exc) == [kind |-> "raise", exc |-> exc]

\* str.startswith(prefix)
StartsWith(s, prefix) ==
    /\ Len(s) >= Len(prefix)
    /\ SubSeq(s, 1, Len(prefix)) = prefix

(***************************************************************************)
(* Strings, integers, decimals, dates and datetimes and their text forms.  *)
(***************************************************************************)
DigitChars == <<"0", "1", "2", "3", "4", "5", "6", "7", "8", "9">>

IsDigit(ch) == \E i \in DOMAIN DigitChars : DigitChars[i] = ch

DigitValue(ch) == (CHOOSE i \in DOMAIN DigitChars : DigitChars[i] = ch) - 1

CharAt(s, i) == SubSeq(s, i, i)

AllDigits(s) == \A i \in 1..Len(s) : IsDigit(CharAt(s, i))

\* Position of the first occurrence of ch in s, 0 when there is none (str.find + 1)
IndexOf(s, ch) ==
    IF \E i \in 1..Len(s) : CharAt(s, i) = ch
    THEN CHOOSE i \in 1..Len(s) :
            /\ CharAt(s, i) = ch
            /\ \A j \in 1..(i - 1) : CharAt(s, j) # ch
    ELSE 0

\* '0' * n
RECURSIVE Zeros(_)
Zeros(n) == IF n <= 0 THEN "" ELSE "0" \o Zeros(n - 1)

\* str(n) for an int n >= 0
RECURSIVE NatToStr(_)
NatToStr(n) ==
    IF n < 10 THEN DigitChars[n + 1]
    ELSE NatToStr(n \div 10) \o DigitChars[(n % 10) + 1]

\* int(s) for a string of digits
RECURSIVE StrToNat(_)
StrToNat(s) ==
    IF Len(s) = 0 THEN 0
    ELSE 10 * StrToNat(SubSeq(s, 1, Len(s) - 1)) + DigitValue(CharAt(s, Len(s)))

\* "%0<w>d" % n
ZeroPad(n, w) == Zeros(w - Len(NatToStr(n))) \o NatToStr(n)

\* "%+d" % n
SignedStr(n) == IF n < 0 THEN "-" \o NatToStr(-n) ELSE "+" \o NatToStr(n)

\* str(int(s)) for a non-empty string of digits: leading zeros dropped
RECURSIVE StripLeadingZeros(_)
StripLeadingZeros(s) ==
    IF Len(s) > 1 /\ CharAt(s, 1) = "0" THEN StripLeadingZeros(SubSeq(s, 2, Len(s)))
    ELSE s

\* decimal.Decimal, as CPython holds it: sign, the coefficient's digits, the exponent.
Dec(digits, exp) == [sign |-> 0, int |-> digits, exp |-> exp]

\* Decimal >= 0, Decimal <= 100 (the ge / le constraints of the models)
DecIsZero(d) == d.int = "0"
DecGeZero(d) == d.sign = 0 \/ DecIsZero(d)
\* digits left of the decimal point of d, when d's coefficient is not zero
DecLeftDigits(d) == d.exp + Len(d.int)
DecLeHundred(d) ==
    \/ d.sign = 1
    \/ DecIsZero(d)
    \/ DecLeftDigits(d) <= 2
    \/ /\ DecLeftDigits(d) = 3
       /\ StripLeadingZeros(d.int) = d.int
       /\ CharAt(d.int, 1) = "1"
       /\ \A i \in 2..Len(d.int) : CharAt(d.int, i) = "0"

\* str(Decimal): Decimal.__str__ (scientific notation when the exponent is positive
\* or the value is smaller than 1E-6)
DecimalStr(d) ==
    LET leftdigits == d.exp + Len(d.int)
        dotplace   == IF d.exp <= 0 /\ leftdigits > -6 THEN leftdigits ELSE 1
        intpart    == IF dotplace <= 0 THEN "0"
                      ELSE IF dotplace >= Len(d.int)
                           THEN d.int \o Zeros(dotplace - Len(d.int))
                           ELSE SubSeq(d.int, 1, dotplace)
        fracpart   == IF dotplace <= 0 THEN "." \o Zeros(-dotplace) \o d.int
                      ELSE IF dotplace >= Len(d.int) THEN ""
                           ELSE "." \o SubSeq(d.int, dotplace + 1, Len(d.int))
        exp        == IF leftdigits = dotplace THEN ""
                      ELSE "E" \o SignedStr(leftdigits - dotplace)
    IN  (IF d.sign = 1 THEN "-" ELSE "") \o intpart \o fracpart \o exp

\* Whether Decimal(s) accepts the string s (digits, optional fraction, optional exponent)
DecimalParses(s) ==
    LET neg   == Len(s) > 0 /\ CharAt(s, 1) = "-"
        body  == IF neg THEN SubSeq(s, 2, Len(s)) ELSE s
        ePos  == IndexOf(body, "E")
        mant  == IF ePos = 0 THEN body ELSE SubSeq(body, 1, ePos - 1)
        expS  == IF ePos = 0 THEN "" ELSE SubSeq(body, ePos + 1, Len(body))
        expD  == IF Len(expS) > 0 /\ CharAt(expS, 1) \in {"+", "-"}
                 THEN SubSeq(expS, 2, Len(expS)) ELSE expS
        dot   == IndexOf(mant, ".")
        ip    == IF dot = 0 THEN mant ELSE SubSeq(mant, 1, dot - 1)
        fp    == IF dot = 0 THEN "" ELSE SubSeq(mant, dot + 1, Len(mant))
    IN  /\ Len(ip \o fp) > 0
        /\ AllDigits(ip \o fp)
        /\ ePos # 0 => (Len(expD) > 0 /\ AllDigits(expD))

\* Decimal(s) for a string s that DecimalParses
ParseDecimal(s) ==
    LET neg   == Len(s) > 0 /\ CharAt(s, 1) = "-"
        body  == IF neg THEN SubSeq(s, 2, Len(s)) ELSE s
        ePos  == IndexOf(body, "E")
        mant  == IF ePos = 0 THEN body ELSE SubSeq(body, 1, ePos - 1)
        expS  == IF ePos = 0 THEN "" ELSE SubSeq(body, ePos + 1, Len(body))
        expNeg == Len(expS) > 0 /\ CharAt(expS, 1) = "-"
        expD  == IF Len(expS) > 0 /\ CharAt(expS, 1) \in {"+", "-"}
                 THEN SubSeq(expS, 2, Len(expS)) ELSE expS
        expV  == IF ePos = 0 THEN 0
                 ELSE IF expNeg THEN -StrToNat(expD) ELSE StrToNat(expD)
        dot   == IndexOf(mant, ".")
        ip    == IF dot = 0 THEN mant ELSE SubSeq(mant, 1, dot - 1)
        fp    == IF dot = 0 THEN "" ELSE SubSeq(mant, dot + 1, Len(mant))
    IN  [sign |-> IF neg THEN 1 ELSE 0,
         int  |-> StripLeadingZeros(ip \o fp),
         exp  |-> expV - Len(fp)]

\* datetime.date
Date(y, m, d) == [year |-> y, month |-> m, day |-> d]

\* date.isoformat()
DateIso(d) == ZeroPad(d.year, 4) \o "-" \o ZeroPad(d.month, 2) \o "-" \o ZeroPad(d.day, 2)

\* Whether s has the form YYYY-MM-DD
DateParses(s) ==
    /\ Len(s) = 10
    /\ CharAt(s, 5) = "-" /\ CharAt(s, 8) = "-"
    /\ AllDigits(SubSeq(s, 1, 4)) /\ AllDigits(SubSeq(s, 6, 7)) /\ AllDigits(SubSeq(s, 9, 10))

\* date.fromisoformat(s)
ParseDate(s) ==
    Date(StrToNat(SubSeq(s, 1, 4)), StrToNat(SubSeq(s, 6, 7)), StrToNat(SubSeq(s, 9, 10)))

\* A naive datetime.  The model's clock counts microseconds within the second
\* EpochSecond, so a datetime is [us |-> n], the instant n microseconds into it.
EpochSecond == "2024-01-01T00:00:00"

DateTime(n) == [us |-> n]

\* datetime.isoformat(): the microseconds are left out when they are zero
DateTimeIso(t) ==
    IF t.us = 0 THEN EpochSecond ELSE EpochSecond \o "." \o ZeroPad(t.us, 6)

DateTimeParses(s) ==
    /\ StartsWith(s, EpochSecond)
    /\ \/ Len(s) = Len(EpochSecond)
       \/ /\ Len(s) = Len(EpochSecond) + 7
          /\ CharAt(s, Len(EpochSecond) + 1) = "."
          /\ AllDigits(SubSeq(s, Len(EpochSecond) + 2, Len(s)))

\* datetime.fromisoformat(s)
ParseDateTime(s) ==
    IF Len(s) = Len(EpochSecond) THEN DateTime(0)
    ELSE DateTime(StrToNat(SubSeq(s, Len(EpochSecond) + 2, Len(s))))

(***************************************************************************)
(* The ACME Custom Model (models/custom/acme_commercial_package.py).       *)
(***************************************************************************)
PropertyTypeValues == {"office", "retail", "warehouse", "manufacturing", "restaurant"}

CoverageTypeValues ==
    {"general_liability", "property", "business_interruption", "workers_comp",
     "commercial_auto"}

\* A member of a str-valued Enum; its value is the string code.
EnumMember(enum, value) == [enum |-> enum, value |-> value]

LocationFields ==
    {"location_id", "address", "city", "state", "zip_code", "property_type",
     "building_value", "contents_value", "square_footage"}

EmployeeFields == {"class_code", "description", "num_employees", "annual_payroll"}

\* deductible is Optional: a Coverage may be built without it
CoverageRequiredFields == {"coverage_type", "limit", "premium"}

\* Location: the field constraints checked when an instance is built
LocationValid(l) ==
    /\ Len(l.state) = 2
    /\ l.property_type.value \in PropertyTypeValues
    /\ DecGeZero(l.building_value)
    /\ DecGeZero(l.contents_value)
    /\ l.square_footage >= 0

\* Employee: the field constraints
EmployeeValid(e) ==
    /\ e.num_employees >= 0
    /\ DecGeZero(e.annual_payroll)

\* Coverage: the field constraints
CoverageValid(c) ==
    /\ c.coverage_type.value \in CoverageTypeValues
    /\ DecGeZero(c.limit)
    /\ IsNone(c.deductible) \/ DecGeZero(c.deductible[1])
    /\ DecGeZero(c.premium)

\* AcmeCommercialPackagePolicy: the field constraints of the Custom Model, on the
\* keyword arguments kw its constructor is given (id and risk_zip are Optional here
\* because a caller may pass None, which the str fields reject)
CustomValid(kw) ==
    /\ ~IsNone(kw.id)
    /\ ~IsNone(kw.risk_zip)
    /\ Len(kw.risk_state) = 2
    /\ kw.years_in_business >= 0
    /\ Len(kw.locations) >= 1
    /\ \A i \in DOMAIN kw.locations : LocationValid(kw.locations[i])
    /\ \A i \in DOMAIN kw.employees : EmployeeValid(kw.employees[i])
    /\ Len(kw.coverages) >= 1
    /\ \A i \in DOMAIN kw.coverages : CoverageValid(kw.coverages[i])
    /\ DecGeZero(kw.total_premium)
    /\ DecGeZero(kw.commission_rate)
    /\ DecLeHundred(kw.commission_rate)

\* Whether the instance c satisfies the Custom Model's field constraints
CustomInstanceValid(c) ==
    CustomValid([c EXCEPT !.id = Some(c.id), !.risk_zip = Some(c.risk_zip)])

\* Location.model_dump(mode="json"): enum -> its code, Decimal -> str
LocationDump(l) ==
    [location_id    |-> l.location_id,
     address        |-> l.address,
     city           |-> l.city,
     state          |-> l.state,
     zip_code       |-> l.zip_code,
     property_type  |-> l.property_type.value,
     building_value |-> DecimalStr(l.building_value),
     contents_value |-> DecimalStr(l.contents_value),
     square_footage |-> l.square_footage]

\* Employee.model_dump(mode="json")
EmployeeDump(e) ==
    [class_code     |-> e.class_code,
     description    |-> e.description,
     num_employees  |-> e.num_employees,
     annual_payroll |-> DecimalStr(e.annual_payroll)]

\* Coverage.model_dump(mode="json")
CoverageDump(c) ==
    [coverage_type |-> c.coverage_type.value,
     limit         |-> DecimalStr(c.limit),
     deductible    |-> IF IsNone(c.deductible) THEN None
                       ELSE Some(DecimalStr(c.deductible[1])),
     premium       |-> DecimalStr(c.premium)]

\* Whether Location(**d) accepts the dict d
LocationLoads(d) ==
    /\ LocationFields \subseteq DOMAIN d
    /\ Len(d.state) = 2
    /\ d.property_type \in PropertyTypeValues
    /\ DecimalParses(d.building_value) /\ DecGeZero(ParseDecimal(d.building_value))
    /\ DecimalParses(d.contents_value) /\ DecGeZero(ParseDecimal(d.contents_value))
    /\ d.square_footage >= 0

\* Location(**d)
LocationLoad(d) ==
    [location_id    |-> d.location_id,
     address        |-> d.address,
     city           |-> d.city,
     state          |-> d.state,
     zip_code       |-> d.zip_code,
     property_type  |-> EnumMember("PropertyType", d.property_type),
     building_value |-> ParseDecimal(d.building_value),
     contents_value |-> ParseDecimal(d.contents_value),
     square_footage |-> d.square_footage]

\* Whether Employee(**d) accepts the dict d
EmployeeLoads(d) ==
    /\ EmployeeFields \subseteq DOMAIN d
    /\ d.num_employees >= 0
    /\ DecimalParses(d.annual_payroll) /\ DecGeZero(ParseDecimal(d.annual_payroll))

\* Employee(**d)
EmployeeLoad(d) ==
    [class_code     |-> d.class_code,
     description    |-> d.description,
     num_employees  |-> d.num_employees,
     annual_payroll |-> ParseDecimal(d.annual_payroll)]

\* d.get("deductible"): None when the key is missing
CoverageDeductibleOf(d) == IF "deductible" \in DOMAIN d THEN d.deductible ELSE None

\* Whether Coverage(**d) accepts the dict d
CoverageLoads(d) ==
    /\ CoverageRequiredFields \subseteq DOMAIN d
    /\ d.coverage_type \in CoverageTypeValues
    /\ DecimalParses(d.limit) /\ DecGeZero(ParseDecimal(d.limit))
    /\ DecimalParses(d.premium) /\ DecGeZero(ParseDecimal(d.premium))
    /\ LET ded == CoverageDeductibleOf(d)
       IN  IsNone(ded) \/ (DecimalParses(ded[1]) /\ DecGeZero(ParseDecimal(ded[1])))

\* Coverage(**d)
CoverageLoad(d) ==
    [coverage_type |-> EnumMember("CoverageType", d.coverage_type),
     limit         |-> ParseDecimal(d.limit),
     deductible    |-> LET ded == CoverageDeductibleOf(d)
                       IN  IF IsNone(ded) THEN None ELSE Some(ParseDecimal(ded[1])),
     premium       |-> ParseDecimal(d.premium)]

(***************************************************************************)
(* The Common Record (models/policy_transaction.py).                       *)
(***************************************************************************)
PolicyNumberMinLen == 1
PolicyNumberMaxLen == 100
CodeMinLen == 1
CodeMaxLen == 50
CurrencyMaxLen == 3
RiskStateLen == 2
RiskZipMaxLen == 10

\* PolicyTransactionCommon: the field constraints, on the constructor's arguments
CommonValid(kw) ==
    /\ Len(kw.policy_number) >= PolicyNumberMinLen
    /\ Len(kw.policy_number) <= PolicyNumberMaxLen
    /\ Len(kw.carrier_code) >= CodeMinLen /\ Len(kw.carrier_code) <= CodeMaxLen
    /\ Len(kw.product_code) >= CodeMinLen /\ Len(kw.product_code) <= CodeMaxLen
    /\ DecGeZero(kw.premium)
    /\ Len(kw.currency) <= CurrencyMaxLen
    /\ Len(kw.risk_state) = RiskStateLen
    /\ IsNone(kw.risk_zip) \/ Len(kw.risk_zip[1]) <= RiskZipMaxLen

\* The fields the Common Record standardises across carriers.
StandardFieldNames ==
    {"policy_number", "effective_date", "expiration_date", "premium", "risk_state",
     "risk_zip", "status", "carrier_code", "product_code"}

(***************************************************************************)
(* Mapper classes.  The repository ships one concrete mapper class,        *)
(* AcmeCommercialPackageMapper; the others are classes a caller may define *)
(* and hand to register() (a second class for the same carrier/product,    *)
(* and classes for other carrier/product pairs).                           *)
(***************************************************************************)
MapperClasses ==
    {"AcmeCommercialPackageMapper", "AcmeCommercialPackageMapperV2",
     "StateFarmPersonalAutoMapper", "StateFarmHomeownersMapper"}

\* PolicyMapper.carrier_code of an instance of cls
carrier_code(cls) ==
    IF cls \in {"AcmeCommercialPackageMapper", "AcmeCommercialPackageMapperV2"}
    THEN "ACME" ELSE "STATE_FARM"

\* PolicyMapper.product_code of an instance of cls
product_code(cls) ==
    CASE cls \in {"AcmeCommercialPackageMapper", "AcmeCommercialPackageMapperV2"}
            -> "COMMERCIAL_PACKAGE"
      [] cls = "StateFarmPersonalAutoMapper" -> "PERSONAL_AUTO"
      [] OTHER -> "HOMEOWNERS"

CarrierCodes == {"ACME", "STATE_FARM"}
ProductCodes == {"COMMERCIAL_PACKAGE", "PERSONAL_AUTO", "HOMEOWNERS"}

\* Policy numbers handed to get_mapper_by_policy.
PolicyNumbers ==
    {"ACME-CPP-2024-001234", "ACME-", "UNKNOWN-123", "acme-cpp-1", "ACME", "", "AUTO-2024-001234"}

(***************************************************************************)
(* AcmeCommercialPackageMapper                                             *)
(***************************************************************************)
AcmeMapper == "AcmeCommercialPackageMapper"

\* [f(x) for x in xs]
MapSeq(F(_), xs) == [i \in DOMAIN xs |-> F(xs[i])]

\* d.get(key, default)
Get(d, key, default) == IF key \in DOMAIN d THEN d[key] ELSE default

\* A _serialize_custom_fields that also copies the premium into the extension bag.
SerializeCustomFieldsWithPremium(custom) ==
    [business_name     |-> custom.business_name,
     dba_name          |-> custom.dba_name,
     business_type     |-> custom.business_type,
     industry_code     |-> custom.industry_code,
     years_in_business |-> custom.years_in_business,
     contact_name      |-> custom.contact_name,
     contact_email     |-> custom.contact_email,
     contact_phone     |-> custom.contact_phone,
     underwriter_code  |-> custom.underwriter_code,
     underwriter_name  |-> custom.underwriter_name,
     producer_code     |-> custom.producer_code,
     producer_name     |-> custom.producer_name,
     locations         |-> MapSeq(LocationDump, custom.locations),
     employees         |-> MapSeq(EmployeeDump, custom.employees),
     coverages         |-> MapSeq(CoverageDump, custom.coverages),
     payment_plan      |-> custom.payment_plan,
     commission_rate   |-> DecimalStr(custom.commission_rate),
     premium           |-> DecimalStr(custom.total_premium)]

\* AcmeCommercialPackageMapper._serialize_custom_fields
SerializeCustomFields(custom) ==
    [business_name     |-> custom.business_name,
     dba_name          |-> custom.dba_name,
     business_type     |-> custom.business_type,
     industry_code     |-> custom.industry_code,
     years_in_business |-> custom.years_in_business,
     contact_name      |-> custom.contact_name,
     contact_email     |-> custom.contact_email,
     contact_phone     |-> custom.contact_phone,
     underwriter_code  |-> custom.underwriter_code,
     underwriter_name  |-> custom.underwriter_name,
     producer_code     |-> custom.producer_code,
     producer_name     |-> custom.producer_name,
     locations         |-> MapSeq(LocationDump, custom.locations),
     employees         |-> MapSeq(EmployeeDump, custom.employees),
     coverages         |-> MapSeq(CoverageDump, custom.coverages),
     payment_plan      |-> custom.payment_plan,
     commission_rate   |-> DecimalStr(custom.commission_rate)]

\* AcmeCommercialPackageMapper.to_common; utcnow is the clock reading at the call
\* (transaction_date's default factory)
to_common(custom, utcnow) ==
    LET kw == [id               |-> Some(custom.id),
               policy_number    |-> custom.policy_number,
               transaction_type |-> custom.transaction_type,
               effective_date   |-> custom.effective_date,
               expiration_date  |-> custom.expiration_date,
               transaction_date |-> DateTime(utcnow),
               carrier_code     |-> carrier_code(AcmeMapper),
               product_code     |-> product_code(AcmeMapper),
               premium          |-> custom.total_premium,
               currency         |-> "USD",
               risk_state       |-> custom.risk_state,
               risk_zip         |-> Some(custom.risk_zip),
               status           |-> custom.status,
               custom_fields    |-> SerializeCustomFields(custom),
               created_at       |-> custom.created_at,
               updated_at       |-> custom.updated_at,
               created_by       |-> None,
               updated_by       |-> None]
    IN  IF CommonValid(kw) THEN Return(kw) ELSE Raise("ValidationError")

\* Whether _deserialize_custom_fields builds every nested entry and the commission rate
DeserializeLoads(custom_fields) ==
    /\ \A i \in DOMAIN Get(custom_fields, "locations", <<>>) :
           LocationLoads(custom_fields.locations[i])
    /\ \A i \in DOMAIN Get(custom_fields, "employees", <<>>) :
           EmployeeLoads(custom_fields.employees[i])
    /\ \A i \in DOMAIN Get(custom_fields, "coverages", <<>>) :
           CoverageLoads(custom_fields.coverages[i])
    /\ DecimalParses(Get(custom_fields, "commission_rate", "0.0"))

\* The exception _deserialize_custom_fields raises when it does not load: pydantic's
\* ValidationError from a nested entry, else decimal's InvalidOperation from the
\* commission rate (the nested collections are built first)
DeserializeError(custom_fields) ==
    IF DecimalParses(Get(custom_fields, "commission_rate", "0.0"))
       \/ ~(/\ \A i \in DOMAIN Get(custom_fields, "locations", <<>>) :
                   LocationLoads(custom_fields.locations[i])
            /\ \A i \in DOMAIN Get(custom_fields, "employees", <<>>) :
                   EmployeeLoads(custom_fields.employees[i])
            /\ \A i \in DOMAIN Get(custom_fields, "coverages", <<>>) :
                   CoverageLoads(custom_fields.coverages[i]))
    THEN "ValidationError" ELSE "InvalidOperation"

\* AcmeCommercialPackageMapper._deserialize_custom_fields, when DeserializeLoads
DeserializeCustomFields(custom_fields) ==
    [business_name     |-> Get(custom_fields, "business_name", ""),
     dba_name          |-> Get(custom_fields, "dba_name", None),
     business_type     |-> Get(custom_fields, "business_type", ""),
     industry_code     |-> Get(custom_fields, "industry_code", ""),
     years_in_business |-> Get(custom_fields, "years_in_business", 0),
     contact_name      |-> Get(custom_fields, "contact_name", ""),
     contact_email     |-> Get(custom_fields, "contact_email", None),
     contact_phone     |-> Get(custom_fields, "contact_phone", ""),
     underwriter_code  |-> Get(custom_fields, "underwriter_code", ""),
     underwriter_name  |-> Get(custom_fields, "underwriter_name", ""),
     producer_code     |-> Get(custom_fields, "producer_code", ""),
     producer_name     |-> Get(custom_fields, "producer_name", ""),
     locations         |-> MapSeq(LocationLoad, Get(custom_fields, "locations", <<>>)),
     employees         |-> MapSeq(EmployeeLoad, Get(custom_fields, "employees", <<>>)),
     coverages         |-> MapSeq(CoverageLoad, Get(custom_fields, "coverages", <<>>)),
     payment_plan      |-> Get(custom_fields, "payment_plan", "quarterly"),
     commission_rate   |-> ParseDecimal(Get(custom_fields, "commission_rate", "0.0"))]

\* The keyword arguments to_custom hands to AcmeCommercialPackagePolicy: the standard
\* fields of the Common Record and the entries of custom_data
ToCustomKw(common, custom_data) ==
    [id                |-> common.id,
     policy_number     |-> common.policy_number,
     effective_date    |-> common.effective_date,
     expiration_date   |-> common.expiration_date,
     transaction_type  |-> common.transaction_type,
     risk_state        |-> common.risk_state,
     risk_zip          |-> common.risk_zip,
     business_name     |-> Get(custom_data, "business_name", ""),
     dba_name          |-> Get(custom_data, "dba_name", None),
     business_type     |-> Get(custom_data, "business_type", ""),
     industry_code     |-> Get(custom_data, "industry_code", ""),
     years_in_business |-> Get(custom_data, "years_in_business", 0),
     contact_name      |-> Get(custom_data, "contact_name", ""),
     contact_email     |-> Get(custom_data, "contact_email", None),
     contact_phone     |-> Get(custom_data, "contact_phone", ""),
     underwriter_code  |-> Get(custom_data, "underwriter_code", ""),
     underwriter_name  |-> Get(custom_data, "underwriter_name", ""),
     producer_code     |-> Get(custom_data, "producer_code", ""),
     producer_name     |-> Get(custom_data, "producer_name", ""),
     locations         |-> Get(custom_data, "locations", <<>>),
     employees         |-> Get(custom_data, "employees", <<>>),
     coverages         |-> Get(custom_data, "coverages", <<>>),
     total_premium     |-> common.premium,
     payment_plan      |-> Get(custom_data, "payment_plan", "quarterly"),
     commission_rate   |-> Get(custom_data, "commission_rate", Dec("0", -1)),
     status            |-> common.status,
     created_at        |-> common.created_at,
     updated_at        |-> common.updated_at]

\* AcmeCommercialPackagePolicy(**kw)
CustomBuild(kw) ==
    IF CustomValid(kw)
    THEN Return([kw EXCEPT !.id = kw.id[1], !.risk_zip = kw.risk_zip[1]])
    ELSE Raise("ValidationError")

\* A to_custom that leaves out the nested entries that do not load (the commission
\* rate being a number)
ToCustomDroppingEntries(common) ==
    LET cf == common.custom_fields
        kept == [k \in DOMAIN cf |->
                    IF k = "locations" THEN SelectSeq(cf[k], LocationLoads)
                    ELSE IF k = "employees" THEN SelectSeq(cf[k], EmployeeLoads)
                    ELSE IF k = "coverages" THEN SelectSeq(cf[k], CoverageLoads)
                    ELSE cf[k]]
    IN  CHOOSE result \in
            {CustomBuild(kw) :
                kw \in {ToCustomKw(common, custom_data) :
                           custom_data \in {DeserializeCustomFields(kept)}}} :
            TRUE

\* AcmeCommercialPackageMapper.to_custom: custom_data, then the keyword arguments,
\* then the model, each computed once from the one before
to_custom(common) ==
    IF ~DeserializeLoads(common.custom_fields)
    THEN Raise(DeserializeError(common.custom_fields))
    ELSE CHOOSE result \in
             {CustomBuild(kw) :
                 kw \in {ToCustomKw(common, custom_data) :
                            custom_data \in {DeserializeCustomFields(common.custom_fields)}}} :
             TRUE

(***************************************************************************)
(* Repositories: what both backends share.                                 *)
(***************************************************************************)
\* PolicyTransactionCommon.model_dump(mode="json"): date and datetime -> ISO text,
\* Decimal -> str; custom_fields already holds JSON values
ModelDumpJson(item) ==
    [id               |-> item.id,
     policy_number    |-> item.policy_number,
     transaction_type |-> item.transaction_type,
     effective_date   |-> DateIso(item.effective_date),
     expiration_date  |-> DateIso(item.expiration_date),
     transaction_date |-> DateTimeIso(item.transaction_date),
     carrier_code     |-> item.carrier_code,
     product_code     |-> item.product_code,
     premium          |-> DecimalStr(item.premium),
     currency         |-> item.currency,
     risk_state       |-> item.risk_state,
     risk_zip         |-> item.risk_zip,
     status           |-> item.status,
     custom_fields    |-> item.custom_fields,
     created_at       |-> DateTimeIso(item.created_at),
     updated_at       |-> DateTimeIso(item.updated_at),
     created_by       |-> item.created_by,
     updated_by       |-> item.updated_by]

\* Whether PolicyTransactionCommon(**data) accepts the dict read from storage
CommonLoads(data) ==
    /\ DateParses(data.effective_date)
    /\ DateParses(data.expiration_date)
    /\ DateTimeParses(data.transaction_date)
    /\ DecimalParses(data.premium)
    /\ DateTimeParses(data.created_at)
    /\ DateTimeParses(data.updated_at)
    /\ CommonValid([data EXCEPT !.premium = ParseDecimal(data.premium)])

\* PolicyTransactionCommon(**data)
CommonLoad(data) ==
    IF ~CommonLoads(data) THEN Raise("ValidationError")
    ELSE Return(
        [id               |-> data.id,
         policy_number    |-> data.policy_number,
         transaction_type |-> data.transaction_type,
         effective_date   |-> ParseDate(data.effective_date),
         expiration_date  |-> ParseDate(data.expiration_date),
         transaction_date |-> ParseDateTime(data.transaction_date),
         carrier_code     |-> data.carrier_code,
         product_code     |-> data.product_code,
         premium          |-> ParseDecimal(data.premium),
         currency         |-> data.currency,
         risk_state       |-> data.risk_state,
         risk_zip         |-> data.risk_zip,
         status           |-> data.status,
         custom_fields    |-> data.custom_fields,
         created_at       |-> ParseDateTime(data.created_at),
         updated_at       |-> ParseDateTime(data.updated_at),
         created_by       |-> data.created_by,
         updated_by       |-> data.updated_by])

\* str(uuid.uuid4()): the n-th identifier generated is unlike every other
Uuid4(n) == "uuid-" \o NatToStr(n)

\* not item.id: the id is None or the empty string
IdIsFalsy(id) == IF IsNone(id) THEN TRUE ELSE id[1] = ""

\* A filter entry: a single value, or a list of values.
Single(v) == [kind |-> "single", value |-> v]
List(vs) == [kind |-> "list", values |-> vs]

\* `if filters:` - neither None nor the empty dict
FiltersGiven(filters) == ~IsNone(filters) /\ DOMAIN filters[1] # {}

\* xs[skip : skip + limit]
Slice(xs, skip, limit) ==
    SubSeq(xs, skip + 1, IF skip + limit < Len(xs) THEN skip + limit ELSE Len(xs))

\* Index of the first element of xs satisfying P, 0 when there is none
FirstIndex(xs, P(_)) ==
    IF \E i \in DOMAIN xs : P(xs[i])
    THEN CHOOSE i \in DOMAIN xs : P(xs[i]) /\ \A j \in 1..(i - 1) : ~P(xs[j])
    ELSE 0

\* The results of loading each of the dicts: the first exception raised, else the list
LoadAll(Load(_), ds) ==
    LET rs == [i \in DOMAIN ds |-> Load(ds[i])]
        bad == FirstIndex(rs, LAMBDA r : r.kind = "raise")
    IN  IF bad # 0 THEN rs[bad] ELSE Return([i \in DOMAIN rs |-> rs[i].value])

(***************************************************************************)
(* JSONFileRepository.  data is the list of dicts the data file holds.     *)
(***************************************************************************)
\* JSONFileRepository._to_dict
JsonToDict(item) == ModelDumpJson(item)

\* JSONFileRepository._from_dict
JsonFromDict(data) == CommonLoad(data)

\* JSONFileRepository._matches_filters
JsonMatchesFilters(item, filters) ==
    \A key \in DOMAIN filters :
        /\ key \in DOMAIN item
        /\ IF filters[key].kind = "list"
           THEN \E i \in DOMAIN filters[key].values : item[key] = filters[key].values[i]
           ELSE item[key] = filters[key].value

\* The filtered data of list and count
JsonFiltered(data, filters) ==
    IF FiltersGiven(filters)
    THEN SelectSeq(data, LAMBDA item : JsonMatchesFilters(item, filters[1]))
    ELSE data

\* item.get("id") == id
JsonHasId(item, id) == "id" \in DOMAIN item /\ item.id = Some(id)

\* JSONFileRepository.get
JsonGet(id, data) ==
    LET i == FirstIndex(data, LAMBDA item : JsonHasId(item, id))
    IN  IF i = 0 THEN ReturnsNone ELSE JsonFromDict(data[i])

\* JSONFileRepository.list
JsonList(skip, limit, filters, data) ==
    LoadAll(JsonFromDict, Slice(JsonFiltered(data, filters), skip, limit))

\* A create that keeps the timestamps the caller's record carries.
JsonCreateItemKeepsTimestamps(item, utcnow, uuid) ==
    [item EXCEPT !.id = IF IdIsFalsy(item.id) THEN Some(uuid) ELSE item.id]

\* JSONFileRepository.create: the item as the call leaves (and returns) it
JsonCreateItem(item, utcnow, uuid) ==
    [item EXCEPT !.id = IF IdIsFalsy(item.id) THEN Some(uuid) ELSE item.id,
                 !.created_at = DateTime(utcnow),
                 !.updated_at = DateTime(utcnow)]

\* JSONFileRepository.create: the data written
JsonCreateData(item, data, utcnow, uuid) ==
    Append(data, JsonToDict(JsonCreateItem(item, utcnow, uuid)))

\* s.replace("Z", "+00:00")
RECURSIVE ReplaceZ(_)
ReplaceZ(s) ==
    IF Len(s) = 0 THEN ""
    ELSE (IF CharAt(s, 1) = "Z" THEN "+00:00" ELSE CharAt(s, 1)) \o
         ReplaceZ(SubSeq(s, 2, Len(s)))

\* An update that stores the record as the caller handed it, with only the id forced.
JsonUpdateItemKeepsCreatedAt(id, item, existing, utcnow) ==
    [item EXCEPT !.id = Some(id), !.updated_at = DateTime(utcnow)]

\* JSONFileRepository.update: the item as the call leaves it, existing being the
\* stored dict with that id
JsonUpdateItem(id, item, existing, utcnow) ==
    [item EXCEPT !.id = Some(id),
                 !.updated_at = DateTime(utcnow),
                 !.created_at = ParseDateTime(ReplaceZ(existing.created_at))]

\* JSONFileRepository.update: the index of the record updated, 0 when the id is absent
JsonUpdateIndex(id, data) == FirstIndex(data, LAMBDA item : JsonHasId(item, id))

\* An update that takes the record out of its place and puts the new one at the end
JsonUpdateDataMovingToEnd(id, item, data, utcnow) ==
    LET i == JsonUpdateIndex(id, data)
    IN  IF i = 0 THEN data
        ELSE Append(SubSeq(data, 1, i - 1) \o SubSeq(data, i + 1, Len(data)),
                    JsonToDict(JsonUpdateItem(id, item, data[i], utcnow)))

\* JSONFileRepository.update: the data file after the call
JsonUpdateData(id, item, data, utcnow) ==
    LET i == JsonUpdateIndex(id, data)
    IN  IF i = 0 THEN data
        ELSE [data EXCEPT ![i] = JsonToDict(JsonUpdateItem(id, item, data[i], utcnow))]

\* JSONFileRepository.update: what the call returns
JsonUpdateResult(id, item, data, utcnow) ==
    LET i == JsonUpdateIndex(id, data)
    IN  IF i = 0 THEN ReturnsNone ELSE Return(JsonUpdateItem(id, item, data[i], utcnow))

\* A delete that removes the first record carrying the id and no other
JsonDeleteDataFirstOnly(id, data) ==
    LET i == FirstIndex(data, LAMBDA item : JsonHasId(item, id))
    IN  IF i = 0 THEN data ELSE SubSeq(data, 1, i - 1) \o SubSeq(data, i + 1, Len(data))

\* JSONFileRepository.delete: the data file after the call
JsonDeleteData(id, data) == SelectSeq(data, LAMBDA item : ~JsonHasId(item, id))

\* JSONFileRepository.delete: what the call returns
JsonDeleteResult(id, data) == Return(Len(JsonDeleteData(id, data)) < Len(data))

\* JSONFileRepository.count
JsonCount(filters, data) == Return(Len(JsonFiltered(data, filters)))

\* JSONFileRepository.exists
JsonExists(id, data) == Return(\E i \in DOMAIN data : JsonHasId(data[i], id))

(***************************************************************************)
(* MongoDBRepository.  docs is the policy_transactions collection, in      *)
(* insertion order; the driver's calls are modelled by what MongoDB does:  *)
(* _id is unique, a query matches a field against a value or against the   *)
(* values of $in, and a field the document lacks matches neither.          *)
(***************************************************************************)
\* MongoDBRepository._to_dict: the dump with id renamed to _id
MongoToDict(item) ==
    LET d == ModelDumpJson(item)
    IN  [k \in (DOMAIN d \ {"id"}) \cup {"_id"} |-> IF k = "_id" THEN d.id ELSE d[k]]

\* MongoDBRepository._from_dict: _id renamed back to id, then the model is built
MongoFromDict(doc) ==
    LET d == IF "_id" \in DOMAIN doc
             THEN [k \in (DOMAIN doc \ {"_id"}) \cup {"id"} |->
                      IF k = "id" THEN doc["_id"] ELSE doc[k]]
             ELSE doc
    IN  CommonLoad(d)

\* MongoDBRepository._build_filter
MongoBuildFilter(filters) ==
    IF ~FiltersGiven(filters) THEN <<>>
    ELSE [key \in DOMAIN filters[1] |->
            IF filters[1][key].kind = "list"
            THEN [op |-> "$in", values |-> filters[1][key].values]
            ELSE [op |-> "$eq", value |-> filters[1][key].value]]

\* Whether a document matches a query (collection.find / count_documents)
MongoMatches(doc, mongo_filter) ==
    \A key \in DOMAIN mongo_filter :
        /\ key \in DOMAIN doc
        /\ IF mongo_filter[key].op = "$in"
           THEN \E i \in DOMAIN mongo_filter[key].values :
                    doc[key] = mongo_filter[key].values[i]
           ELSE doc[key] = mongo_filter[key].value

\* collection.find(mongo_filter), in insertion order
MongoFind(docs, mongo_filter) ==
    SelectSeq(docs, LAMBDA doc : MongoMatches(doc, mongo_filter))

\* collection.find_one({"_id": id}): its index, 0 when there is none
MongoFindOneIndex(id, docs) == FirstIndex(docs, LAMBDA doc : doc["_id"] = Some(id))

\* The orders .sort("created_at", DESCENDING) may deliver the documents in: every
\* arrangement with created_at non-increasing (documents that tie come in any order)
MongoSortedDescending(docs) ==
    {[i \in DOMAIN docs |-> docs[p[i]]] :
        p \in {q \in [DOMAIN docs -> DOMAIN docs] :
                 /\ \A i, j \in DOMAIN docs : i # j => q[i] # q[j]
                 /\ \A i, j \in DOMAIN docs : i < j =>
                        ParseDateTime(docs[q[i]].created_at).us >=
                        ParseDateTime(docs[q[j]].created_at).us}}

\* MongoDBRepository.get
MongoGet(id, docs) ==
    LET i == MongoFindOneIndex(id, docs)
    IN  IF i = 0 THEN ReturnsNone ELSE MongoFromDict(docs[i])

\* MongoDBRepository.list: the results it may return
MongoList(skip, limit, filters, docs) ==
    {LoadAll(MongoFromDict, Slice(sorted, skip, limit)) :
        sorted \in MongoSortedDescending(MongoFind(docs, MongoBuildFilter(filters)))}

\* MongoDBRepository.count
MongoCount(filters, docs) == Return(Len(MongoFind(docs, MongoBuildFilter(filters))))

\* MongoDBRepository.exists
MongoExists(id, docs) == Return(MongoFindOneIndex(id, docs) # 0)

\* MongoDBRepository.create: the item as the call leaves it
MongoCreateItem(item, utcnow, uuid) ==
    [item EXCEPT !.id = IF IdIsFalsy(item.id) THEN Some(uuid) ELSE item.id,
                 !.created_at = DateTime(utcnow),
                 !.updated_at = DateTime(utcnow)]

\* insert_one refuses a document whose _id the collection already holds
MongoDuplicateKey(doc, docs) == \E i \in DOMAIN docs : docs[i]["_id"] = doc["_id"]

\* MongoDBRepository.create: the collection after the call
MongoCreateDocs(item, docs, utcnow, uuid) ==
    LET doc == MongoToDict(MongoCreateItem(item, utcnow, uuid))
    IN  IF MongoDuplicateKey(doc, docs) THEN docs ELSE Append(docs, doc)

\* MongoDBRepository.create: what the call returns or raises
MongoCreateResult(item, docs, utcnow, uuid) ==
    LET doc == MongoToDict(MongoCreateItem(item, utcnow, uuid))
    IN  IF MongoDuplicateKey(doc, docs) THEN Raise("DuplicateKeyError")
        ELSE Return(MongoCreateItem(item, utcnow, uuid))

\* MongoDBRepository.update: the replacement document, existing being the stored
\* document; created_at is taken from it as stored (its text form)
MongoUpdateDoc(id, item, existing, utcnow) ==
    LET doc == MongoToDict([item EXCEPT !.id = Some(id), !.updated_at = DateTime(utcnow)])
    IN  IF "created_at" \in DOMAIN existing
        THEN [doc EXCEPT !["created_at"] = existing.created_at]
        ELSE doc

\* MongoDBRepository.update: the collection after the call (replace_one)
MongoUpdateDocs(id, item, docs, utcnow) ==
    LET i == MongoFindOneIndex(id, docs)
    IN  IF i = 0 THEN docs
        ELSE [docs EXCEPT ![i] = MongoUpdateDoc(id, item, docs[i], utcnow)]

\* MongoDBRepository.update: what the call returns; modified_count is 0 when the
\* replacement equals the stored document.  The item returned holds created_at as
\* the stored text.
MongoUpdateResult(id, item, docs, utcnow) ==
    LET i == MongoFindOneIndex(id, docs)
    IN  IF i = 0 THEN ReturnsNone
        ELSE IF MongoUpdateDoc(id, item, docs[i], utcnow) = docs[i] THEN ReturnsNone
        ELSE Return([item EXCEPT !.id = Some(id),
                                 !.updated_at = DateTime(utcnow),
                                 !.created_at = Get(docs[i], "created_at",
                                                    item.created_at)])

\* MongoDBRepository.delete: the collection after the call (delete_one)
MongoDeleteDocs(id, docs) ==
    LET i == MongoFindOneIndex(id, docs)
    IN  IF i = 0 THEN docs
        ELSE SubSeq(docs, 1, i - 1) \o SubSeq(docs, i + 1, Len(docs))

\* MongoDBRepository.delete: what the call returns
MongoDeleteResult(id, docs) == Return(MongoFindOneIndex(id, docs) # 0)

(***************************************************************************)
(* Custom Model instances handed to the mapper and the service.            *)
(***************************************************************************)
Location1 ==
    [location_id |-> "LOC-1", address |-> "1 Main St", city |-> "Springfield",
     state |-> "CA", zip_code |-> "90210",
     property_type |-> EnumMember("PropertyType", "office"),
     building_value |-> Dec("100000", 0), contents_value |-> Dec("20000", 0),
     square_footage |-> 2500]

Location2 ==
    [location_id |-> "LOC-2", address |-> "2 Dock Rd", city |-> "Oakland",
     state |-> "CA", zip_code |-> "94607",
     property_type |-> EnumMember("PropertyType", "warehouse"),
     building_value |-> Dec("25000050", -2), contents_value |-> Dec("0", 0),
     square_footage |-> 0]

Employee1 ==
    [class_code |-> "8810", description |-> "Clerical", num_employees |-> 12,
     annual_payroll |-> Dec("6000005", -1)]

Coverage1 ==
    [coverage_type |-> EnumMember("CoverageType", "general_liability"),
     limit |-> Dec("1000000", 0), deductible |-> None, premium |-> Dec("500", 0)]

Coverage2 ==
    [coverage_type |-> EnumMember("CoverageType", "property"),
     limit |-> Dec("5", 5), deductible |-> Some(Dec("2500", -1)), premium |-> Dec("1", -7)]

\* The policy of the spec's scenario: one Location, one Coverage, total_premium 500.00
BaseCustom ==
    [id                |-> "",
     policy_number     |-> "ACME-CPP-2024-001234",
     effective_date    |-> Date(2024, 1, 1),
     expiration_date   |-> Date(2025, 1, 1),
     transaction_type  |-> "new_business",
     risk_state        |-> "CA",
     risk_zip          |-> "90210",
     business_name     |-> "Acme Widgets Inc",
     dba_name          |-> Some("Acme Widgets"),
     business_type     |-> "Corporation",
     industry_code     |-> "333514",
     years_in_business |-> 10,
     contact_name      |-> "John Doe",
     contact_email     |-> None,
     contact_phone     |-> "555-1234",
     underwriter_code  |-> "UW-12345",
     underwriter_name  |-> "Jane Underwriter",
     producer_code     |-> "PROD-67890",
     producer_name     |-> "Bob Agent",
     locations         |-> <<Location1>>,
     employees         |-> <<>>,
     coverages         |-> <<Coverage1>>,
     total_premium     |-> Dec("50000", -2),
     payment_plan      |-> "quarterly",
     commission_rate   |-> Dec("150", -1),
     status            |-> "bound",
     created_at        |-> DateTime(0),
     updated_at        |-> DateTime(0)]

\* 96 more characters after "ACME-": a policy number of 101 characters
LongPolicyNumber == "ACME-" \o Zeros(PolicyNumberMaxLen - 4)

\* ... and one of exactly 100
FullPolicyNumber == "ACME-" \o Zeros(PolicyNumberMaxLen - 5)

MapperPolicyNumbers == {"ACME-CPP-2024-001234", "", FullPolicyNumber, LongPolicyNumber}

MapperRiskZips == {"90210", "90210-1234", "90210-12345"}

MapperCommissionRates == {Dec("150", -1), Dec("0", 0), Dec("100", 0), Dec("125", -9)}

MapperLocations == {<<Location1>>, <<Location1, Location2>>, <<Location2, Location1>>}

MapperEmployees == {<<>>, <<Employee1>>}

MapperCoverages == {<<Coverage1>>, <<Coverage2, Coverage1>>}

MapperIds == {"", "P-1"}

\* Valid Custom Model instances: each satisfies CustomInstanceValid
CustomInputs ==
    {[BaseCustom EXCEPT !.id = i, !.policy_number = pn, !.risk_zip = z,
                        !.commission_rate = cr, !.locations = ls, !.employees = es,
                        !.coverages = cs] :
        i \in MapperIds, pn \in MapperPolicyNumbers, z \in MapperRiskZips,
        cr \in MapperCommissionRates, ls \in MapperLocations, es \in MapperEmployees,
        cs \in MapperCoverages}

\* A call that has not been made yet.
Pending == [kind |-> "pending"]

MapIdle ==
    /\ now = 0
    /\ mapIn = BaseCustom
    /\ mapCommon = Pending
    /\ mapBack = Pending

MapInit ==
    /\ now = 0
    /\ mapIn \in CustomInputs
    /\ mapCommon = Pending
    /\ mapBack = Pending

\* mapper.to_common(c)
MapToCommon ==
    /\ mapCommon = Pending
    /\ mapCommon' = to_common(mapIn, now)
    /\ UNCHANGED <<ioVars, now, mapIn, mapBack, regVars, repoVars, svcLast>>

\* mapper.to_custom(common) on the record to_common returned
MapToCustom ==
    /\ mapCommon.kind = "return"
    /\ mapBack = Pending
    /\ mapBack' = to_custom(mapCommon.value)
    /\ UNCHANGED <<ioVars, now, mapIn, mapCommon, regVars, repoVars, svcLast>>

MapNext == MapToCommon \/ MapToCustom

\* The policy whose Common Record the decoding inputs are cut from: two locations,
\* an employee class, two coverages, and no entry at its default
DecodeCustom ==
    [BaseCustom EXCEPT !.id = "P-1",
                       !.locations = <<Location1, Location2>>,
                       !.employees = <<Employee1>>,
                       !.coverages = <<Coverage1, Coverage2>>,
                       !.payment_plan = "monthly",
                       !.contact_email = Some("john@acme.example")]

DecodeBase == to_common(DecodeCustom, 0).value

\* The keys _serialize_custom_fields writes
ExtensionKeys == DOMAIN DecodeBase.custom_fields

\* The dict d without the keys given
Without(d, keys) == [k \in DOMAIN d \ keys |-> d[k]]

\* How many entries a stored custom_fields may lack
MaxDropped == 2

\* Common Records whose custom_fields lacks entries (custom_fields is Dict[str, Any]:
\* a record written by another producer need not hold every key)
LackingCommons ==
    {[DecodeBase EXCEPT !.custom_fields = Without(@, keys)] :
        keys \in {ks \in SUBSET ExtensionKeys : Cardinality(ks) <= MaxDropped}}

\* The record with entry i of a nested collection replaced
WithEntry(common, collection, i, entry) ==
    [common EXCEPT !.custom_fields[collection][i] = entry]

\* Common Records holding one nested entry its target shape does not accept: a
\* required sub-field is missing, or a value is not of the field's type (text that
\* is no number where a Decimal is expected, a code the enum does not have)
CorruptCommons ==
    LET cf == DecodeBase.custom_fields
    IN  {WithEntry(DecodeBase, "locations", 2, Without(cf.locations[2], {"state"})),
         WithEntry(DecodeBase, "locations", 1,
                   [cf.locations[1] EXCEPT !.building_value = "n/a"]),
         WithEntry(DecodeBase, "locations", 2,
                   [cf.locations[2] EXCEPT !.property_type = "castle"]),
         WithEntry(DecodeBase, "employees", 1,
                   Without(cf.employees[1], {"annual_payroll"})),
         WithEntry(DecodeBase, "employees", 1,
                   [cf.employees[1] EXCEPT !.annual_payroll = "unknown"]),
         WithEntry(DecodeBase, "coverages", 2, Without(cf.coverages[2], {"limit"})),
         WithEntry(DecodeBase, "coverages", 1,
                   [cf.coverages[1] EXCEPT !.coverage_type = "flood"]),
         WithEntry(DecodeBase, "coverages", 2,
                   [cf.coverages[2] EXCEPT !.premium = "free"])}

\* Common Records handed to to_custom
DecodeCommons == LackingCommons \cup CorruptCommons

\* The extension bags of the records above
CorruptBags == {common.custom_fields : common \in CorruptCommons}

\* Records written to storage by another program: one the mapper decodes, and two
\* that hold an entry it does not
StoredItems ==
    LET cf == DecodeBase.custom_fields
    IN  {[DecodeBase EXCEPT !.id = None],
         [WithEntry(DecodeBase, "locations", 2, Without(cf.locations[2], {"state"}))
              EXCEPT !.id = Some("P-1")],
         [WithEntry(DecodeBase, "coverages", 1,
                    [cf.coverages[1] EXCEPT !.premium = "free"])
              EXCEPT !.id = None, !.status = "quoted"]}

DecodeInit ==
    /\ now = 0
    /\ mapIn = DecodeCustom
    /\ mapCommon \in {Return(common) : common \in DecodeCommons}
    /\ mapBack = Pending

\* mapper.to_custom(common) on a Common Record read from storage
DecodeNext == MapToCustom

(***************************************************************************)
(* MapperRegistry                                                          *)
(***************************************************************************)
\* dict.keys(), in insertion order
RegisteredKeys(m) == [i \in DOMAIN m |-> m[i].key]

\* key in self._mappers
KeyIn(key, m) == \E i \in DOMAIN m : m[i].key = key

\* self._mappers[key]
ClassAt(key, m) == (CHOOSE i \in DOMAIN m : m[i].key = key) \* keys are unique in a dict

LookupClass(key, m) == m[ClassAt(key, m)].cls

\* A register that drops the duplicate check and overwrites the stored class.
RegisterMappersOverwrite(cls, m) ==
    LET key == <<carrier_code(cls), product_code(cls)>>
    IN  IF KeyIn(key, m)
        THEN [i \in DOMAIN m |-> IF m[i].key = key THEN [key |-> key, cls |-> cls] ELSE m[i]]
        ELSE Append(m, [key |-> key, cls |-> cls])

\* MapperRegistry.register: the dict after the call
RegisterMappers(cls, m) ==
    LET key == <<carrier_code(cls), product_code(cls)>>
    IN  IF KeyIn(key, m) THEN m
        ELSE Append(m, [key |-> key, cls |-> cls])

\* MapperRegistry.register: what the call returns or raises
RegisterResult(cls, m) ==
    LET key == <<carrier_code(cls), product_code(cls)>>
    IN  IF KeyIn(key, m) THEN Raise("ValueError") ELSE ReturnsNone

\* A get_mapper that falls back to the first registered class when the key is absent.
GetMapperResultDefaulting(carrier, product, m) ==
    LET key == <<carrier, product>>
    IN  IF KeyIn(key, m) THEN [kind |-> "mapper", cls |-> LookupClass(key, m)]
        ELSE IF m # <<>> THEN [kind |-> "mapper", cls |-> m[1].cls]
        ELSE [kind |-> "raise", exc |-> "KeyError", available |-> RegisteredKeys(m)]

\* MapperRegistry.get_mapper: a fresh instance of the registered class, or KeyError
GetMapperResult(carrier, product, m) ==
    LET key == <<carrier, product>>
    IN  IF ~KeyIn(key, m)
        THEN [kind |-> "raise", exc |-> "KeyError", available |-> RegisteredKeys(m)]
        ELSE [kind |-> "mapper", cls |-> LookupClass(key, m)]

\* A get_mapper_by_policy that looks the unmatched prefix up in the dict instead of
\* returning ReturnsNone.
GetMapperByPolicyResultStrict(policy_number, m) ==
    IF StartsWith(policy_number, "ACME-")
    THEN GetMapperResult("ACME", "COMMERCIAL_PACKAGE", m)
    ELSE GetMapperResult("UNKNOWN", "UNKNOWN", m)

\* MapperRegistry.get_mapper_by_policy
GetMapperByPolicyResult(policy_number, m) ==
    IF StartsWith(policy_number, "ACME-")
    THEN GetMapperResult("ACME", "COMMERCIAL_PACKAGE", m)
    ELSE ReturnsNone

\* MapperRegistry.list_registered
ListRegisteredResult(m) == [kind |-> "keys", keys |-> RegisteredKeys(m)]

\* A clear that leaves the class registered first in place
ClearMappersKeepsFirst(m) == IF m = <<>> THEN m ELSE <<m[1]>>

\* MapperRegistry.clear: the dict after the call
ClearMappers(m) == <<>>

RegInit ==
    /\ mappers = <<>>      \* MapperRegistry.__init__ / _global_registry at import
    /\ regLast = [op |-> "init", args |-> <<>>, result |-> ReturnsNone, before |-> <<>>]

register(cls) ==
    /\ UNCHANGED <<ioVars, now, mapVars, repoVars, svcLast>>
    /\ mappers' = RegisterMappers(cls, mappers)
    /\ regLast' = [op |-> "register", args |-> <<cls>>,
                   result |-> RegisterResult(cls, mappers), before |-> mappers]

get_mapper(carrier, product) ==
    /\ UNCHANGED <<ioVars, now, mapVars, repoVars, svcLast>>
    /\ mappers' = mappers
    /\ regLast' = [op |-> "get_mapper", args |-> <<carrier, product>>,
                   result |-> GetMapperResult(carrier, product, mappers),
                   before |-> mappers]

get_mapper_by_policy(policy_number) ==
    /\ UNCHANGED <<ioVars, now, mapVars, repoVars, svcLast>>
    /\ mappers' = mappers
    /\ regLast' = [op |-> "get_mapper_by_policy", args |-> <<policy_number>>,
                   result |-> GetMapperByPolicyResult(policy_number, mappers),
                   before |-> mappers]

list_registered ==
    /\ UNCHANGED <<ioVars, now, mapVars, repoVars, svcLast>>
    /\ mappers' = mappers
    /\ regLast' = [op |-> "list_registered", args |-> <<>>,
                   result |-> ListRegisteredResult(mappers), before |-> mappers]

clear ==
    /\ UNCHANGED <<ioVars, now, mapVars, repoVars, svcLast>>
    /\ mappers' = ClearMappers(mappers)
    /\ regLast' = [op |-> "clear", args |-> <<>>, result |-> ReturnsNone, before |-> mappers]

RegNext ==
    \/ \E cls \in MapperClasses : register(cls)
    \/ \E carrier \in CarrierCodes, product \in ProductCodes : get_mapper(carrier, product)
    \/ \E pn \in PolicyNumbers : get_mapper_by_policy(pn)
    \/ list_registered
    \/ clear

(***************************************************************************)
(* Repository calls.                                                       *)
(***************************************************************************)
MaxRecords == 2     \* create is not called on a store that holds this many records
MaxClock == 1       \* the clock stops here
MaxUuids == 2       \* uuid4 is not called more often than this

\* The Common Record to_common builds for the scenario's policy
BaseCommon == to_common(BaseCustom, 0).value

\* Common Records handed to create and update: without an id (None, or the empty
\* string), with an id of the caller's, with an id uuid4 generated earlier; each with
\* timestamps of the caller's
RepoItem(id, status, created, updated) ==
    [BaseCommon EXCEPT !.id = id, !.status = status,
                       !.created_at = DateTime(created), !.updated_at = DateTime(updated)]

RepoItems ==
    {RepoItem(None, "quoted", 1, 7),
     RepoItem(Some(""), "bound", 0, 0),
     RepoItem(Some("P-1"), "bound", 1, 7),
     RepoItem(Some(Uuid4(1)), "quoted", 0, 0)}

\* Records and filters of the calls whose order of results is looked at
OrderItems == {RepoItem(None, "quoted", 1, 7), RepoItem(Some("P-1"), "bound", 1, 7)}

OrderFilters == {None, Some([status |-> Single("bound")])}

\* Ids handed to get, update, delete and exists
RepoIds == {"P-1", Uuid4(1), "missing"}

\* Filters handed to list and count
RepoFilters ==
    {None,
     Some(<<>>),
     Some([status |-> Single("bound")]),
     Some([status |-> List(<<"quoted", "bound">>)]),
     Some([status |-> List(<<>>)]),
     Some([status |-> Single("quoted"), carrier_code |-> Single("ACME")]),
     Some([status |-> List(<<"bound">>), carrier_code |-> Single("STATE_FARM")]),
     Some([id |-> Single(Some("P-1"))]),
     Some([category |-> Single("x")])}

\* Filters handed to the service's list and count
ServiceFilters ==
    {None,
     Some([status |-> Single("bound")]),
     Some([status |-> List(<<"quoted", "bound">>)]),
     Some([status |-> Single("quoted"), carrier_code |-> Single("ACME")]),
     Some([id |-> Single(Some("P-1"))])}

\* (skip, limit) handed to list; 100 is the default limit
RepoPages == {<<0, 100>>, <<1, 100>>, <<0, 1>>}

NoCall == [op |-> "init", args |-> <<>>, result |-> ReturnsNone, before |-> <<>>, at |-> 0]

\* What a request is answered with: the handler it was routed to, the status code,
\* and what the handler returned or raised
\* A request: method, path below the router's prefix, query parameters and, for
\* POST and PUT, the body
Request(method, path, query, body) ==
    [method |-> method, path |-> path, query |-> query, body |-> body]

Query(carrier, status) ==
    [skip |-> 0, limit |-> 100, carrier_code |-> carrier, status |-> status]

NoQuery == Query(None, None)

NoRequest == Request("", <<>>, NoQuery, <<>>)

Response(handler, status, body) == [handler |-> handler, status |-> status, body |-> body]

NoResponse == Response("none", 0, ReturnsNone)

\* The processes that share the data file
Procs == {1, 2}

\* A process that has no mutating call under way
IdleProc ==
    [pc |-> "idle", op |-> "none", args |-> [id |-> "", item |-> <<>>], data |-> <<>>,
     result |-> ReturnsNone, wrote |-> 0, seen |-> 0, at |-> 0]

NoProcs == [p \in Procs |-> IdleProc]

RepoIdle ==
    /\ svcLast = NoCall
    /\ disk = "ok"
    /\ procs = NoProcs
    /\ httpIn = NoRequest
    /\ httpLast = NoResponse
    /\ backend = "json"
    /\ file = <<>>
    /\ coll = <<>>
    /\ uuids = 0
    /\ born = <<>>
    /\ repoLast = NoCall

RepoInit ==
    /\ svcLast = NoCall
    /\ disk = "ok"
    /\ procs = NoProcs
    /\ httpIn = NoRequest
    /\ httpLast = NoResponse
    /\ backend \in {"json", "mongo"}
    /\ file = <<>>      \* _ensure_file_exists writes []
    /\ coll = <<>>
    /\ uuids = 0
    /\ born = <<>>
    /\ repoLast = NoCall

Called(op, args, result, before) ==
    [op |-> op, args |-> args, result |-> result, before |-> before, at |-> now]

\* The elements of xs at the positions where the same position of ys satisfies Keep
KeepWhere(xs, ys, Keep(_)) ==
    LET idx == SelectSeq([i \in DOMAIN ys |-> i], LAMBDA i : i \in DOMAIN xs /\ Keep(ys[i]))
    IN  [k \in DOMAIN idx |-> xs[idx[k]]]

\* A caller can hand in an id of its own, or one uuid4 has generated before
CallerKnows(id) ==
    IF IdIsFalsy(id) THEN TRUE
    ELSE \A n \in (uuids + 1)..(MaxUuids + 1) : id[1] # Uuid4(n)

\* uuid4 is called only when the item carries no id
UuidsAfter(item) == IF IdIsFalsy(item.id) THEN uuids + 1 ELSE uuids

\* time passes
Tick ==
    /\ now < MaxClock
    /\ now' = now + 1
    /\ UNCHANGED <<ioVars, regVars, mapVars, repoVars, svcLast>>

\* JSONFileRepository._read_data: the list the file holds, or [] when the file is
\* not there or is not JSON
JsonReadData == IF disk = "ok" THEN file ELSE <<>>

\* What a call leaves behind that writes only when _read_data gave it the file's
\* list: written when the file was read, kept when it was not
JsonAfter(written, kept) == IF disk = "ok" THEN written ELSE kept

\* The data file is removed, or left with text that is not JSON (a writer that was
\* stopped after open(..., "w") truncated it)
file_damage(state) ==
    /\ backend = "json"
    /\ disk = "ok"
    /\ disk' = state
    /\ UNCHANGED <<procs, httpIn, httpLast, regVars, now, mapVars, repoVars, svcLast>>

json_create(item) ==
    /\ backend = "json"
    /\ CallerKnows(item.id)
    /\ Len(file) < MaxRecords
    /\ IdIsFalsy(item.id) => uuids < MaxUuids
    /\ file' = JsonCreateData(item, JsonReadData, now, Uuid4(uuids + 1))
    /\ disk' = "ok"
    /\ uuids' = UuidsAfter(item)
    /\ born' = Append(JsonAfter(born, <<>>),
                      [id |-> file'[Len(file')].id,
                       created_at |-> file'[Len(file')].created_at])
    /\ repoLast' = Called("create", [item |-> item],
                          Return(JsonCreateItem(item, now, Uuid4(uuids + 1))), file)
    /\ UNCHANGED <<procs, httpIn, httpLast, regVars, now, mapVars, svcLast, backend, coll>>

json_update(id, item) ==
    /\ backend = "json"
    /\ file' = JsonAfter(JsonUpdateData(id, item, file, now), file)
    /\ repoLast' = Called("update", [id |-> id, item |-> item],
                          JsonUpdateResult(id, item, JsonReadData, now), file)
    /\ UNCHANGED <<ioVars, regVars, now, mapVars, svcLast, backend, coll, uuids, born>>

json_delete(id) ==
    /\ backend = "json"
    /\ file' = JsonAfter(JsonDeleteData(id, file), file)
    /\ born' = JsonAfter(KeepWhere(born, file, LAMBDA item : ~JsonHasId(item, id)), born)
    /\ repoLast' = Called("delete", [id |-> id], JsonDeleteResult(id, JsonReadData), file)
    /\ UNCHANGED <<ioVars, regVars, now, mapVars, svcLast, backend, coll, uuids>>

json_get(id) ==
    /\ backend = "json"
    /\ repoLast' = Called("get", [id |-> id], JsonGet(id, JsonReadData), file)
    /\ UNCHANGED <<ioVars, regVars, now, mapVars, svcLast, backend, file, coll, uuids, born>>

json_list(skip, limit, filters) ==
    /\ backend = "json"
    /\ repoLast' = Called("list", [skip |-> skip, limit |-> limit, filters |-> filters],
                          JsonList(skip, limit, filters, JsonReadData), file)
    /\ UNCHANGED <<ioVars, regVars, now, mapVars, svcLast, backend, file, coll, uuids, born>>

json_count(filters) ==
    /\ backend = "json"
    /\ repoLast' = Called("count", [filters |-> filters], JsonCount(filters, JsonReadData), file)
    /\ UNCHANGED <<ioVars, regVars, now, mapVars, svcLast, backend, file, coll, uuids, born>>

json_exists(id) ==
    /\ backend = "json"
    /\ repoLast' = Called("exists", [id |-> id], JsonExists(id, JsonReadData), file)
    /\ UNCHANGED <<ioVars, regVars, now, mapVars, svcLast, backend, file, coll, uuids, born>>

(***************************************************************************)
(* JSONFileRepository in several processes over one data file.  A mutating *)
(* call is two steps: _read_data, then what the call does to the list it   *)
(* read, ending in _write_data when it writes.  Nothing holds the file in  *)
(* between.                                                                *)
(***************************************************************************)
\* Records the processes create and update with
WriterItems ==
    {RepoItem(Some("P-1"), "bound", 1, 7), RepoItem(Some("P-2"), "quoted", 0, 0)}

\* Ids the processes update and delete
WriterIds == {"P-1", "P-2"}

\* How many of the processes have written the file
WritesDone == Cardinality({p \in Procs : procs[p].wrote > 0})

\* data = self._read_data(), the first line of create, update and delete
ProcRead(p, op, id, item) ==
    /\ backend = "json"
    /\ procs[p].pc = "idle"
    /\ procs' = [procs EXCEPT ![p] = [pc |-> "read", op |-> op,
                                      args |-> [id |-> id, item |-> item],
                                      data |-> JsonReadData, result |-> ReturnsNone,
                                      wrote |-> 0, seen |-> WritesDone, at |-> now]]
    /\ UNCHANGED <<disk, httpIn, httpLast, regVars, now, mapVars, repoVars, svcLast>>

\* The list a call hands to _write_data, given the list it read
ProcWritten(op, args, data, utcnow) ==
    IF op = "create" THEN JsonCreateData(args.item[1], data, utcnow, Uuid4(1))
    ELSE IF op = "update" THEN JsonUpdateData(args.id, args.item[1], data, utcnow)
    ELSE JsonDeleteData(args.id, data)

\* What the call returns
ProcResult(op, args, data, utcnow) ==
    IF op = "create" THEN Return(JsonCreateItem(args.item[1], utcnow, Uuid4(1)))
    ELSE IF op = "update" THEN JsonUpdateResult(args.id, args.item[1], data, utcnow)
    ELSE JsonDeleteResult(args.id, data)

\* Whether the call reaches _write_data: create always, update when it found the id,
\* delete when it removed something
ProcWrites(op, args, data) ==
    IF op = "create" THEN TRUE
    ELSE IF op = "update" THEN JsonUpdateIndex(args.id, data) # 0
    ELSE Len(JsonDeleteData(args.id, data)) < Len(data)

\* A rest of the call that works on the file as it is when the call writes
ProcDataRead(p) == JsonReadData

\* The list the rest of the call works on: the one the process read
ProcData(p) == procs[p].data

\* The history of the records a data file holds (update keeps created_at)
BornOf(data) == [i \in DOMAIN data |-> [id |-> data[i].id, created_at |-> data[i].created_at]]

proc_create(p, item) ==
    /\ Len(JsonReadData) < MaxRecords
    /\ ProcRead(p, "create", "", <<item>>)

proc_update(p, id, item) == ProcRead(p, "update", id, <<item>>)

proc_delete(p, id) == ProcRead(p, "delete", id, <<>>)

\* The rest of the call, from the line after _read_data to the return
proc_finish(p) ==
    /\ procs[p].pc = "read"
    /\ LET call == procs[p]
           data == ProcData(p)
           writes == ProcWrites(call.op, call.args, data)
       IN  /\ file' = IF writes THEN ProcWritten(call.op, call.args, data, now) ELSE file
           /\ disk' = IF writes THEN "ok" ELSE disk
           /\ procs' = [procs EXCEPT ![p] =
                            [call EXCEPT !.pc = "done",
                                         !.result = ProcResult(call.op, call.args, data, now),
                                         !.wrote = IF writes THEN WritesDone + 1 ELSE 0,
                                         !.at = now]]
    /\ born' = BornOf(file')
    /\ UNCHANGED <<httpIn, httpLast, regVars, now, mapVars, backend, coll, uuids, repoLast, svcLast>>

\* One process alone fills the file before the others start
writers_setup(item) ==
    /\ procs = NoProcs
    /\ json_create(item)

mongo_create(item) ==
    /\ backend = "mongo"
    /\ CallerKnows(item.id)
    /\ Len(coll) < MaxRecords
    /\ IdIsFalsy(item.id) => uuids < MaxUuids
    /\ coll' = MongoCreateDocs(item, coll, now, Uuid4(uuids + 1))
    /\ uuids' = UuidsAfter(item)
    /\ born' = IF Len(coll') > Len(coll)
               THEN Append(born, [id |-> coll'[Len(coll')]["_id"],
                                  created_at |-> coll'[Len(coll')].created_at])
               ELSE born
    /\ repoLast' = Called("create", [item |-> item],
                          MongoCreateResult(item, coll, now, Uuid4(uuids + 1)), coll)
    /\ UNCHANGED <<ioVars, regVars, now, mapVars, svcLast, backend, file>>

mongo_update(id, item) ==
    /\ backend = "mongo"
    /\ coll' = MongoUpdateDocs(id, item, coll, now)
    /\ repoLast' = Called("update", [id |-> id, item |-> item],
                          MongoUpdateResult(id, item, coll, now), coll)
    /\ UNCHANGED <<ioVars, regVars, now, mapVars, svcLast, backend, file, uuids, born>>

mongo_delete(id) ==
    /\ backend = "mongo"
    /\ coll' = MongoDeleteDocs(id, coll)
    /\ born' = LET i == MongoFindOneIndex(id, coll)
               IN  IF i = 0 THEN born
                   ELSE SubSeq(born, 1, i - 1) \o SubSeq(born, i + 1, Len(born))
    /\ repoLast' = Called("delete", [id |-> id], MongoDeleteResult(id, coll), coll)
    /\ UNCHANGED <<ioVars, regVars, now, mapVars, svcLast, backend, file, uuids>>

mongo_get(id) ==
    /\ backend = "mongo"
    /\ repoLast' = Called("get", [id |-> id], MongoGet(id, coll), coll)
    /\ UNCHANGED <<ioVars, regVars, now, mapVars, svcLast, backend, file, coll, uuids, born>>

mongo_list(skip, limit, filters) ==
    /\ backend = "mongo"
    /\ \E result \in MongoList(skip, limit, filters, coll) :
           repoLast' = Called("list", [skip |-> skip, limit |-> limit, filters |-> filters],
                              result, coll)
    /\ UNCHANGED <<ioVars, regVars, now, mapVars, svcLast, backend, file, coll, uuids, born>>

mongo_count(filters) ==
    /\ backend = "mongo"
    /\ repoLast' = Called("count", [filters |-> filters], MongoCount(filters, coll), coll)
    /\ UNCHANGED <<ioVars, regVars, now, mapVars, svcLast, backend, file, coll, uuids, born>>

mongo_exists(id) ==
    /\ backend = "mongo"
    /\ repoLast' = Called("exists", [id |-> id], MongoExists(id, coll), coll)
    /\ UNCHANGED <<ioVars, regVars, now, mapVars, svcLast, backend, file, coll, uuids, born>>

(***************************************************************************)
(* MongoDBRepository.update in several clients of one collection.  The     *)
(* call is two requests to the server, find_one and replace_one; other     *)
(* clients' requests can be served in between.                             *)
(***************************************************************************)
\* replace_one({"_id": id}, doc, upsert=True): the document is inserted when no
\* document carries the id
MongoReplaceOneUpsert(id, doc, docs) ==
    LET i == MongoFindOneIndex(id, docs)
    IN  IF i = 0 THEN Append(docs, doc) ELSE [docs EXCEPT ![i] = doc]

\* replace_one({"_id": id}, doc): the collection after the request
MongoReplaceOne(id, doc, docs) ==
    LET i == MongoFindOneIndex(id, docs)
    IN  IF i = 0 THEN docs ELSE [docs EXCEPT ![i] = doc]

\* result.modified_count > 0: a document carried the id and the replacement differs
MongoModified(id, doc, docs) ==
    LET i == MongoFindOneIndex(id, docs)
    IN  IF i = 0 THEN FALSE ELSE docs[i] # doc

\* item.id = id; item.updated_at = utcnow(); existing = find_one({"_id": id});
\* return None when there is none
client_find(p, id, item) ==
    /\ backend = "mongo"
    /\ procs[p].pc = "idle"
    /\ LET i == MongoFindOneIndex(id, coll)
       IN  procs' = [procs EXCEPT ![p] =
                        [pc |-> IF i = 0 THEN "done" ELSE "found",
                         op |-> "update", args |-> [id |-> id, item |-> <<item>>],
                         data |-> IF i = 0 THEN <<>> ELSE <<coll[i]>>,
                         result |-> ReturnsNone, wrote |-> 0, seen |-> 0, at |-> now]]
    /\ UNCHANGED <<disk, httpIn, httpLast, regVars, now, mapVars, repoVars, svcLast>>

\* The rest of update: created_at taken from the document found, replace_one, and
\* the item returned when a document was modified
client_replace(p) ==
    /\ backend = "mongo"
    /\ procs[p].pc = "found"
    /\ LET call == procs[p]
           id == call.args.id
           item == call.args.item[1]
           existing == call.data[1]
           doc == MongoUpdateDoc(id, item, existing, call.at)
           modified == MongoModified(id, doc, coll)
       IN  /\ coll' = MongoReplaceOne(id, doc, coll)
           /\ born' = IF Len(coll') > Len(coll)
                      THEN Append(born, [id |-> doc["_id"], created_at |-> doc.created_at])
                      ELSE born
           /\ procs' = [procs EXCEPT ![p] =
                            [call EXCEPT
                                !.pc = "done",
                                !.wrote = IF modified THEN 1 ELSE 0,
                                !.result =
                                    IF modified
                                    THEN Return([item EXCEPT
                                                    !.id = Some(id),
                                                    !.updated_at = DateTime(call.at),
                                                    !.created_at =
                                                        Get(existing, "created_at",
                                                            item.created_at)])
                                    ELSE ReturnsNone]]
    /\ UNCHANGED <<disk, httpIn, httpLast, regVars, now, mapVars, backend, file, uuids, repoLast, svcLast>>

\* One client alone fills the collection before the others start
clients_setup(item) ==
    /\ procs = NoProcs
    /\ mongo_create(item)

(***************************************************************************)
(* PolicyTransactionService, holding the repository `backend` names and    *)
(* the AcmeCommercialPackageMapper.                                        *)
(***************************************************************************)
\* The records the repository in use holds
Store == IF backend = "json" THEN file ELSE coll

\* self.repository.get(id)
RepositoryGet(id) ==
    IF backend = "json" THEN JsonGet(id, JsonReadData) ELSE MongoGet(id, coll)

\* self.repository.create(common): what it returns or raises
RepositoryCreateResult(common) ==
    IF backend = "json"
    THEN Return(JsonCreateItem(common, now, Uuid4(uuids + 1)))
    ELSE MongoCreateResult(common, coll, now, Uuid4(uuids + 1))

\* PolicyTransactionService.get
ServiceGet(id) ==
    LET common == RepositoryGet(id)
    IN  IF common.kind = "return" THEN to_custom(common.value)
        ELSE common     \* None, or the exception the repository raised

\* PolicyTransactionService.create: what the call returns or raises
ServiceCreateResult(custom_model) ==
    LET common == to_common(custom_model, now)
    IN  IF common.kind = "raise" THEN common
        ELSE LET created == RepositoryCreateResult(common.value)
             IN  IF created.kind = "raise" THEN created
                 ELSE to_custom(created.value)

\* self.repository.update(id, common): what it returns or raises
RepositoryUpdateResult(id, common) ==
    IF backend = "json"
    THEN JsonUpdateResult(id, common, JsonReadData, now)
    ELSE MongoUpdateResult(id, common, coll, now)

\* The Common Record to_custom reads after repository.update: MongoDBRepository.update
\* leaves created_at as the stored text, which AcmeCommercialPackagePolicy(created_at=...)
\* parses back into a datetime
UpdatedAsRead(updated) ==
    IF backend = "mongo"
    THEN [updated EXCEPT !.created_at = ParseDateTime(updated.created_at)]
    ELSE updated

\* PolicyTransactionService.update: what the call returns or raises
ServiceUpdateResult(id, custom_model) ==
    LET common == to_common(custom_model, now)
    IN  IF common.kind = "raise" THEN common
        ELSE LET updated == RepositoryUpdateResult(id, common.value)
             IN  IF updated.kind = "return" THEN to_custom(UpdatedAsRead(updated.value))
                 ELSE updated     \* None, or the exception the repository raised

\* self.repository.list(skip, limit, filters): the results it may return
RepositoryListResults(skip, limit, filters) ==
    IF backend = "json"
    THEN {JsonList(skip, limit, filters, JsonReadData)}
    ELSE MongoList(skip, limit, filters, coll)

\* PolicyTransactionService.list, common_list being what repository.list returned or
\* raised: to_custom over each record in turn, the first exception ending the call
ServiceListResult(common_list) ==
    IF common_list.kind = "raise" THEN common_list
    ELSE LoadAll(to_custom, common_list.value)

\* Customs handed to the service: the scenario's policy without an id, with the
\* caller's id, with an id generated earlier, and one the Common Record rejects
ServiceCustom(id, status, policy_number, employees) ==
    [BaseCustom EXCEPT !.id = id, !.status = status, !.policy_number = policy_number,
                       !.employees = employees, !.created_at = DateTime(1),
                       !.updated_at = DateTime(7)]

ServiceCustoms ==
    {ServiceCustom("", "quoted", "ACME-CPP-2024-001234", <<Employee1>>),
     ServiceCustom("", "bound", "ACME-CPP-2024-001235", <<>>),
     ServiceCustom("P-1", "bound", "ACME-CPP-2024-001234", <<>>),
     ServiceCustom("P-1", "quoted", "ACME-CPP-2024-001235", <<Employee1>>),
     ServiceCustom(Uuid4(1), "bound", "ACME-CPP-2024-001235", <<>>),
     ServiceCustom("", "bound", "", <<>>)}

\* Customs handed to update: another status and nested content under the same or
\* another id, and one the Common Record rejects
ServiceUpdates ==
    {ServiceCustom("", "bound", "ACME-CPP-2024-001235", <<>>),
     ServiceCustom("P-1", "quoted", "ACME-CPP-2024-001235", <<Employee1>>),
     ServiceCustom("", "bound", "", <<>>)}

ServiceCreateCall(custom_model) ==
    /\ CallerKnows(Some(custom_model.id))
    /\ Len(Store) < MaxRecords
    /\ custom_model.id = "" => uuids < MaxUuids
    /\ LET common == to_common(custom_model, now)
       IN  IF common.kind = "raise"
           THEN UNCHANGED <<file, disk, coll, uuids, born>>
           ELSE /\ file' = IF backend = "json"
                           THEN JsonCreateData(common.value, JsonReadData, now,
                                               Uuid4(uuids + 1))
                           ELSE file
                /\ disk' = IF backend = "json" THEN "ok" ELSE disk
                /\ coll' = IF backend = "mongo"
                           THEN MongoCreateDocs(common.value, coll, now, Uuid4(uuids + 1))
                           ELSE coll
                /\ uuids' = UuidsAfter(common.value)
                /\ born' = IF backend = "json"
                           THEN Append(JsonAfter(born, <<>>),
                                       [id |-> file'[Len(file')].id,
                                        created_at |-> file'[Len(file')].created_at])
                           ELSE IF Len(coll') > Len(coll)
                           THEN Append(born, [id |-> coll'[Len(coll')]["_id"],
                                              created_at |-> coll'[Len(coll')].created_at])
                           ELSE born
    /\ svcLast' = Called("create", [custom_model |-> custom_model],
                         ServiceCreateResult(custom_model), Store)
    /\ UNCHANGED <<procs, regVars, now, mapVars, backend, repoLast>>

service_create(custom_model) == ServiceCreateCall(custom_model) /\ UNCHANGED <<httpIn, httpLast>>

ServiceUpdateCall(id, custom_model) ==
    /\ LET common == to_common(custom_model, now)
       IN  IF common.kind = "raise"
           THEN UNCHANGED <<file, coll>>
           ELSE /\ file' = IF backend = "json"
                           THEN JsonAfter(JsonUpdateData(id, common.value, file, now),
                                          file)
                           ELSE file
                /\ coll' = IF backend = "mongo"
                           THEN MongoUpdateDocs(id, common.value, coll, now)
                           ELSE coll
    /\ svcLast' = Called("update", [id |-> id, custom_model |-> custom_model],
                         ServiceUpdateResult(id, custom_model), Store)
    /\ UNCHANGED <<disk, procs, regVars, now, mapVars, backend, uuids, born, repoLast>>

service_update(id, custom_model) == ServiceUpdateCall(id, custom_model) /\ UNCHANGED <<httpIn, httpLast>>

\* self.repository.delete(id), which PolicyTransactionService.delete returns
RepositoryDeleteResult(id) ==
    IF backend = "json" THEN JsonDeleteResult(id, JsonReadData)
    ELSE MongoDeleteResult(id, coll)

\* self.repository.exists(id), which PolicyTransactionService.exists returns
RepositoryExists(id) ==
    IF backend = "json" THEN JsonExists(id, JsonReadData) ELSE MongoExists(id, coll)

\* self.repository.count(filters), which PolicyTransactionService.count returns
RepositoryCount(filters) ==
    IF backend = "json" THEN JsonCount(filters, JsonReadData)
    ELSE MongoCount(filters, coll)

\* Customs handed to create before records are deleted: one without an id and two
\* under the caller's id
DeleteCustoms ==
    {ServiceCustom("", "quoted", "ACME-CPP-2024-001234", <<Employee1>>),
     ServiceCustom("P-1", "bound", "ACME-CPP-2024-001234", <<>>),
     ServiceCustom("P-1", "quoted", "ACME-CPP-2024-001235", <<Employee1>>)}

ServiceDeleteCall(id) ==
    /\ file' = IF backend = "json" THEN JsonAfter(JsonDeleteData(id, file), file) ELSE file
    /\ coll' = IF backend = "mongo" THEN MongoDeleteDocs(id, coll) ELSE coll
    /\ born' = IF backend = "json"
               THEN JsonAfter(KeepWhere(born, file, LAMBDA item : ~JsonHasId(item, id)),
                              born)
               ELSE LET i == MongoFindOneIndex(id, coll)
                    IN  IF i = 0 THEN born
                        ELSE SubSeq(born, 1, i - 1) \o SubSeq(born, i + 1, Len(born))
    /\ svcLast' = Called("delete", [id |-> id], RepositoryDeleteResult(id), Store)
    /\ UNCHANGED <<disk, procs, regVars, now, mapVars, backend, uuids, repoLast>>

service_delete(id) == ServiceDeleteCall(id) /\ UNCHANGED <<httpIn, httpLast>>

ServiceExistsCall(id) ==
    /\ svcLast' = Called("exists", [id |-> id], RepositoryExists(id), Store)
    /\ UNCHANGED <<disk, procs, regVars, now, mapVars, repoVars>>

service_exists(id) == ServiceExistsCall(id) /\ UNCHANGED <<httpIn, httpLast>>

ServiceCountCall(filters) ==
    /\ svcLast' = Called("count", [filters |-> filters], RepositoryCount(filters), Store)
    /\ UNCHANGED <<disk, procs, regVars, now, mapVars, repoVars>>

service_count(filters) == ServiceCountCall(filters) /\ UNCHANGED <<httpIn, httpLast>>

ServiceGetCall(id) ==
    /\ svcLast' = Called("get", [id |-> id], ServiceGet(id), Store)
    /\ UNCHANGED <<disk, procs, regVars, now, mapVars, repoVars>>

service_get(id) == ServiceGetCall(id) /\ UNCHANGED <<httpIn, httpLast>>

\* Service.list; repoLast holds the call the service made to the repository
ServiceListCall(skip, limit, filters) ==
    /\ \E common_list \in RepositoryListResults(skip, limit, filters) :
           /\ repoLast' = Called("list",
                                 [skip |-> skip, limit |-> limit, filters |-> filters],
                                 common_list, Store)
           /\ svcLast' = Called("list",
                                [skip |-> skip, limit |-> limit, filters |-> filters],
                                ServiceListResult(common_list), Store)
    /\ UNCHANGED <<disk, procs, regVars, now, mapVars, backend, file, coll, uuids, born>>

service_list(skip, limit, filters) == ServiceListCall(skip, limit, filters) /\ UNCHANGED <<httpIn, httpLast>>

(***************************************************************************)
(* The routes of /api/acme-commercial-package.  A path is the sequence of  *)
(* its segments after the prefix.  get_service gives every request a       *)
(* service over the JSONFileRepository.                                    *)
(***************************************************************************)
Route(method, path, handler) == [method |-> method, path |-> path, handler |-> handler]

\* The routes of the router, in the order of their declaration
Routes ==
    <<Route("GET", <<"policies">>, "list_policies"),
      Route("GET", <<"policies", "{policy_id}">>, "get_policy"),
      Route("POST", <<"policies">>, "create_policy"),
      Route("PUT", <<"policies", "{policy_id}">>, "update_policy"),
      Route("DELETE", <<"policies", "{policy_id}">>, "delete_policy"),
      Route("GET", <<"policies", "count">>, "count_policies"),
      Route("GET", <<"policies", "{policy_id}", "exists">>, "check_policy_exists")>>

\* Whether the path fits the route's path: a parameter takes any non-empty segment
PathMatches(pattern, path) ==
    /\ Len(pattern) = Len(path)
    /\ \A i \in DOMAIN pattern :
           IF pattern[i] = "{policy_id}" THEN path[i] # "" ELSE pattern[i] = path[i]

\* The router: the first route, in declaration order, that fits path and method;
\* when none does, 405 if some route fits the path and 404 if none
Dispatch(method, path) ==
    LET full == FirstIndex(Routes, LAMBDA r : r.method = method /\ PathMatches(r.path, path))
    IN  IF full # 0 THEN Routes[full].handler
        ELSE IF \E i \in DOMAIN Routes : PathMatches(Routes[i].path, path)
        THEN "method_not_allowed"
        ELSE "not_found"

\* raise HTTPException(status_code=404, detail="Policy not found")
NotFound(handler) == Response(handler, 404, [kind |-> "detail", detail |-> "Policy not found"])

\* The response to what a handler returns, or to the exception that leaves it
Answer(handler, status, result) ==
    IF result.kind = "raise" THEN Response(handler, 500, result)
    ELSE Response(handler, status, result)

\* filters = {} ... filters if filters else None, from the query parameters
QueryFilters(query) ==
    LET given == {k \in {"carrier_code", "status"} :
                     IF IsNone(query[k]) THEN FALSE ELSE query[k][1] # ""}
    IN  IF given = {} THEN None ELSE Some([k \in given |-> Single(query[k][1])])

\* policy.model_dump() of a create payload: the fields of the base model
PayloadOf(custom) == [k \in DOMAIN custom \ {"id", "created_at", "updated_at"} |-> custom[k]]

\* policy_dict["id"] = None; AcmeCommercialPackagePolicy(**policy_dict), the timestamps
\* left to their default_factory
FullPolicy(policy_dict, utcnow) ==
    CustomBuild([k \in DOMAIN policy_dict \cup {"id", "created_at", "updated_at"} |->
                    IF k = "id" THEN None
                    ELSE IF k = "risk_zip" THEN Some(policy_dict[k])
                    ELSE IF k \in {"created_at", "updated_at"} THEN DateTime(utcnow)
                    ELSE policy_dict[k]])

\* existing.model_copy(update=update_data): the fields given replace the existing
\* ones, unvalidated
ModelCopy(existing, update_data) ==
    [k \in DOMAIN existing |-> IF k \in DOMAIN update_data THEN update_data[k] ELSE existing[k]]

\* get_policy: policy = await service.get(policy_id); if not policy: raise 404
GetPolicyAnswer(policy) ==
    IF policy = ReturnsNone THEN NotFound("get_policy") ELSE Answer("get_policy", 200, policy)

\* update_policy: result = await service.update(...); if not result: raise 404
UpdateResultAnswer(result) ==
    IF result = ReturnsNone THEN NotFound("update_policy")
    ELSE Answer("update_policy", 200, result)

\* delete_policy: deleted = await service.delete(policy_id); if not deleted: raise 404
DeletePolicyAnswer(deleted) ==
    IF deleted = Return(FALSE) THEN NotFound("delete_policy")
    ELSE Answer("delete_policy", 204, IF deleted.kind = "raise" THEN deleted ELSE ReturnsNone)

\* count_policies: return {"count": count}
CountPoliciesAnswer(count) ==
    Answer("count_policies", 200,
           IF count.kind = "raise" THEN count ELSE Return([count |-> count.value]))

\* check_policy_exists: return {"exists": exists}
CheckPolicyExistsAnswer(exists) ==
    Answer("check_policy_exists", 200,
           IF exists.kind = "raise" THEN exists ELSE Return([exists |-> exists.value]))

\* list_policies: the handler calls service.list and answers with what it returns
list_policies(query) ==
    /\ ServiceListCall(query.skip, query.limit, QueryFilters(query))
    /\ httpLast' = Answer("list_policies", 200, svcLast'.result)

get_policy(policy_id) ==
    /\ ServiceGetCall(policy_id)
    /\ httpLast' = GetPolicyAnswer(svcLast'.result)

\* create_policy: the full model is built first; service.create is called only if
\* the model could be built
create_policy(policy_dict) ==
    \E full_policy \in {FullPolicy(policy_dict, now)} :
        IF full_policy.kind = "raise"
        THEN /\ httpLast' = Answer("create_policy", 500, full_policy)
             /\ UNCHANGED <<disk, procs, regVars, now, mapVars, repoVars, svcLast>>
        ELSE /\ ServiceCreateCall(full_policy.value)
             /\ httpLast' = Answer("create_policy", 201, svcLast'.result)

\* update_policy: service.get, then service.update with the copy carrying the
\* fields the body sets
update_policy(policy_id, update_data) ==
    \E existing \in {ServiceGet(policy_id)} :
        IF existing.kind = "return"
        THEN /\ ServiceUpdateCall(policy_id, ModelCopy(existing.value, update_data))
             /\ httpLast' = UpdateResultAnswer(svcLast'.result)
        ELSE /\ ServiceGetCall(policy_id)
             /\ httpLast' = IF existing = ReturnsNone THEN NotFound("update_policy")
                            ELSE Answer("update_policy", 500, existing)

delete_policy(policy_id) ==
    /\ ServiceDeleteCall(policy_id)
    /\ httpLast' = DeletePolicyAnswer(svcLast'.result)

count_policies(query) ==
    /\ ServiceCountCall(QueryFilters(query))
    /\ httpLast' = CountPoliciesAnswer(svcLast'.result)

check_policy_exists(policy_id) ==
    /\ ServiceExistsCall(policy_id)
    /\ httpLast' = CheckPolicyExistsAnswer(svcLast'.result)

\* A request is routed to the handler the router picks, and handled by it
http_request(request) ==
    /\ backend = "json"
    /\ httpIn' = request
    /\ \E handler \in {Dispatch(request.method, request.path)} :
           IF handler = "list_policies" THEN list_policies(request.query)
           ELSE IF handler = "get_policy" THEN get_policy(request.path[2])
           ELSE IF handler = "create_policy" THEN create_policy(request.body[1])
           ELSE IF handler = "update_policy"
           THEN update_policy(request.path[2], request.body[1])
           ELSE IF handler = "delete_policy" THEN delete_policy(request.path[2])
           ELSE IF handler = "count_policies" THEN count_policies(request.query)
           ELSE IF handler = "check_policy_exists" THEN check_policy_exists(request.path[2])
           ELSE /\ httpLast' =
                       IF handler = "method_not_allowed"
                       THEN Response(handler, 405,
                                     [kind |-> "detail", detail |-> "Method Not Allowed"])
                       ELSE Response(handler, 404, [kind |-> "detail", detail |-> "Not Found"])
                /\ UNCHANGED <<disk, procs, regVars, now, mapVars, repoVars, svcLast>>

\* Bodies the create schema accepts: the scenario's policy, and one with more
\* locations, employees and coverages
CreatePayloads == {PayloadOf(BaseCustom), PayloadOf(DecodeCustom)}

UpdatePayloads == {[status |-> "cancelled"]}

PolicyIds == {"P-1", "count", "missing"}

Requests ==
    {Request("GET", <<"policies">>, Query(None, Some("bound")), <<>>)}
    \cup {Request("GET", <<"policies", "count">>, q, <<>>) :
             q \in {NoQuery, Query(None, Some("bound"))}}
    \cup {Request("GET", <<"policies", id>>, NoQuery, <<>>) : id \in PolicyIds \ {"count"}}
    \cup {Request("GET", <<"policies", "P-1", "exists">>, NoQuery, <<>>)}
    \cup {Request("POST", <<"policies">>, NoQuery, <<policy>>) : policy \in CreatePayloads}
    \cup {Request("PUT", <<"policies", "P-1">>, NoQuery, <<update>>) :
             update \in UpdatePayloads}
    \cup {Request("DELETE", <<"policies", "P-1">>, NoQuery, <<>>)}
    \cup {Request("POST", <<"policies", "count">>, NoQuery, <<>>),
          Request("GET", <<"health">>, NoQuery, <<>>)}

\* Policies stored through the service itself, one of them under the id "count"
SeedCustoms ==
    {ServiceCustom("P-1", "bound", "ACME-CPP-2024-001234", <<>>),
     ServiceCustom("count", "quoted", "ACME-CPP-2024-001235", <<Employee1>>)}

\* Requests to the routes, over what the service has stored.
HttpNext ==
    \/ Tick
    \/ \E custom_model \in SeedCustoms : service_create(custom_model)
    \/ \E request \in Requests : http_request(request)

\* The service's create, update and get, with time passing.
ServiceNext ==
    \/ Tick
    \/ \E custom_model \in ServiceCustoms : service_create(custom_model)
    \/ \E id \in RepoIds, custom_model \in ServiceUpdates : service_update(id, custom_model)
    \/ \E id \in RepoIds : service_get(id)

\* The calls that change the store, on either backend, with time passing.
RepoNext ==
    \/ Tick
    \/ \E item \in RepoItems : json_create(item)
    \/ \E id \in RepoIds, item \in RepoItems : json_update(id, item)
    \/ \E id \in RepoIds : json_delete(id)
    \/ \E item \in RepoItems : mongo_create(item)
    \/ \E id \in RepoIds, item \in RepoItems : mongo_update(id, item)
    \/ \E id \in RepoIds : mongo_delete(id)

\* The calls that read the store, on a store filled by create.
QueryNext ==
    \/ \E item \in RepoItems : json_create(item)
    \/ \E id \in RepoIds : json_get(id)
    \/ \E page \in RepoPages, filters \in RepoFilters :
           json_list(page[1], page[2], filters)
    \/ \E filters \in RepoFilters : json_count(filters)
    \/ \E id \in RepoIds : json_exists(id)
    \/ \E item \in RepoItems : mongo_create(item)
    \/ \E id \in RepoIds : mongo_get(id)
    \/ \E page \in RepoPages, filters \in RepoFilters :
           mongo_list(page[1], page[2], filters)
    \/ \E filters \in RepoFilters : mongo_count(filters)
    \/ \E id \in RepoIds : mongo_exists(id)

\* The service's read calls on what its create stored, with time passing.
ServiceQueryNext ==
    \/ Tick
    \/ \E custom_model \in ServiceCustoms : service_create(custom_model)
    \/ \E page \in RepoPages, filters \in ServiceFilters :
           service_list(page[1], page[2], filters)

\* The file-based repository's calls on a data file that can go missing or bad.
FileFaultNext ==
    \/ \E state \in {"missing", "undecodable"} : file_damage(state)
    \/ \E item \in RepoItems : json_create(item)
    \/ \E id \in RepoIds, item \in RepoItems : json_update(id, item)
    \/ \E id \in RepoIds : json_delete(id)
    \/ \E id \in RepoIds : json_get(id)
    \/ json_list(0, 100, None)
    \/ json_count(None)
    \/ \E id \in RepoIds : json_exists(id)

\* Two processes, each making one mutating call on the shared data file.
WritersNext ==
    \/ Tick
    \/ \E item \in WriterItems : writers_setup(item)
    \/ \E p \in Procs, item \in WriterItems : proc_create(p, item)
    \/ \E p \in Procs, id \in WriterIds, item \in WriterItems : proc_update(p, id, item)
    \/ \E p \in Procs, id \in WriterIds : proc_delete(p, id)
    \/ \E p \in Procs : proc_finish(p)

\* Records created at different times, updated, and listed.
OrderNext ==
    \/ Tick
    \/ \E item \in OrderItems : json_create(item)
    \/ \E item \in OrderItems : json_update("P-1", item)
    \/ \E filters \in OrderFilters : json_list(0, 100, filters)
    \/ \E item \in OrderItems : mongo_create(item)
    \/ \E item \in OrderItems : mongo_update("P-1", item)
    \/ \E filters \in OrderFilters : mongo_list(0, 100, filters)

\* The service's delete, with the calls that show what it left.
ServiceDeleteNext ==
    \/ Tick
    \/ \E custom_model \in DeleteCustoms : service_create(custom_model)
    \/ \E id \in RepoIds : service_delete(id)
    \/ \E id \in RepoIds : service_exists(id)
    \/ \E filters \in OrderFilters : service_count(filters)
    \/ \E id \in RepoIds : service_get(id)

\* Clients of one collection: updates in two requests, deletes in one.
ClientsNext ==
    \/ Tick
    \/ \E item \in WriterItems : clients_setup(item)
    \/ \E p \in Procs, id \in WriterIds, item \in WriterItems : client_find(p, id, item)
    \/ \E p \in Procs : client_replace(p)
    \/ \E id \in WriterIds : mongo_delete(id)

\* The service reading records that another program wrote to its storage.
ServiceDecodeNext ==
    \/ \E item \in StoredItems : json_create(item)
    \/ \E item \in StoredItems : mongo_create(item)
    \/ \E id \in RepoIds : service_get(id)
    \/ \E page \in RepoPages, filters \in {None, Some([status |-> Single("bound")])} :
           service_list(page[1], page[2], filters)

(***************************************************************************)
(* Specifications.                                                         *)
(***************************************************************************)
\* The registry alone.
InitRegistry == RegInit /\ MapIdle /\ RepoIdle
SpecRegistry == InitRegistry /\ [][RegNext]_vars

\* The mapper applied to each valid Custom Model instance.
InitMapper == RegInit /\ MapInit /\ RepoIdle
SpecMapper == InitMapper /\ [][MapNext]_vars

\* A repository of either backend: create, update and delete of Common Records.
InitRepo == RegInit /\ MapIdle /\ RepoInit
SpecRepo == InitRepo /\ [][RepoNext]_vars

\* A repository of either backend: get, list, count and exists on what create stored.
SpecQuery == InitRepo /\ [][QueryNext]_vars

\* The service over a repository of either backend.
SpecService == InitRepo /\ [][ServiceNext]_vars

\* to_custom applied to Common Records as storage may hold them.
InitDecode == RegInit /\ DecodeInit /\ RepoIdle
SpecDecode == InitDecode /\ [][DecodeNext]_vars

\* The file-based repository over a data file that can go missing or bad.
InitFile == RegInit /\ MapIdle /\ RepoIdle
SpecFileFault == InitFile /\ [][FileFaultNext]_vars

\* The service creating and deleting records.
SpecServiceDelete == InitRepo /\ [][ServiceDeleteNext]_vars

\* Lists of records created at different times.
SpecOrder == InitRepo /\ [][OrderNext]_vars

\* Clients updating and deleting in one collection.
InitCollection == RegInit /\ MapIdle /\ RepoInit /\ backend = "mongo"
SpecClients == InitCollection /\ [][ClientsNext]_vars

\* The routes over the file-based repository.
SpecHttp == InitFile /\ [][HttpNext]_vars

\* Two processes writing the one data file.
SpecWriters == InitFile /\ [][WritersNext]_vars

\* The service over storage that holds records it cannot decode.
SpecServiceDecode == InitRepo /\ [][ServiceDecodeNext]_vars

\* The service's list, count, exists and delete over a repository of either backend.
SpecServiceQuery == InitRepo /\ [][ServiceQueryNext]_vars

(***************************************************************************)
(* Claims about the MapperRegistry (checked under SpecRegistry).           *)
(***************************************************************************)
KeyOf(cls) == <<carrier_code(cls), product_code(cls)>>

AcmeKey == <<"ACME", "COMMERCIAL_PACKAGE">>

\* C1: a register() call for a key that is already registered raises the conflict
\* error (ValueError) and leaves the registry - keys, the class stored under each
\* key and the order of list_registered - exactly as it was before the call.
C1_RegisterDuplicateFails ==
    (regLast.op = "register" /\ KeyIn(KeyOf(regLast.args[1]), regLast.before))
        => /\ regLast.result = Raise("ValueError")
           /\ mappers = regLast.before
           /\ RegisteredKeys(mappers) = RegisteredKeys(regLast.before)

\* C1 witness: a different class was registered for a key that already held a class,
\* in a registry holding more than one key.
C1_Witness ==
    /\ regLast.op = "register"
    /\ KeyIn(KeyOf(regLast.args[1]), regLast.before)
    /\ LookupClass(KeyOf(regLast.args[1]), regLast.before) # regLast.args[1]
    /\ Len(regLast.before) >= 2
    /\ regLast.result = Raise("ValueError")

\* C6: get_mapper for a key that is not registered raises the not-found error
\* (KeyError) - never a default, never another key's mapper; get_mapper for a
\* registered key returns an instance of the class registered under that key; the
\* registry is unchanged either way.
C6_GetMapperNotFound ==
    regLast.op = "get_mapper" =>
        LET key == <<regLast.args[1], regLast.args[2]>>
        IN  /\ mappers = regLast.before
            /\ ~KeyIn(key, regLast.before) =>
                   (regLast.result.kind = "raise" /\ regLast.result.exc = "KeyError")
            /\ KeyIn(key, regLast.before) =>
                   /\ regLast.result.kind = "mapper"
                   /\ KeyOf(regLast.result.cls) = key
                   /\ regLast.result.cls = LookupClass(key, regLast.before)

\* C6 witness: a lookup of an unregistered key in a non-empty registry raised KeyError.
C6_Witness ==
    /\ regLast.op = "get_mapper"
    /\ regLast.before # <<>>
    /\ ~KeyIn(<<regLast.args[1], regLast.args[2]>>, regLast.before)
    /\ regLast.result.kind = "raise"

\* C7 (as claimed): in every registry state, get_mapper_by_policy on a policy number
\* starting with "ACME-" returns the ACME/COMMERCIAL_PACKAGE mapper.
C7_AcmePrefixAlwaysReturnsMapper ==
    (regLast.op = "get_mapper_by_policy" /\ StartsWith(regLast.args[1], "ACME-"))
        => /\ regLast.result.kind = "mapper"
           /\ KeyOf(regLast.result.cls) = AcmeKey

\* C8: for a policy number no prefix rule applies to, get_mapper_by_policy returns
\* ReturnsNone (no error) in every registry state and leaves the registry unchanged.
C8_NoPrefixReturnsNone ==
    (regLast.op = "get_mapper_by_policy" /\ ~StartsWith(regLast.args[1], "ACME-"))
        => /\ regLast.result = ReturnsNone
           /\ mappers = regLast.before

\* C8 witness: "UNKNOWN-123" was looked up in a registry that holds mappers, and the
\* call returned ReturnsNone.
C8_Witness ==
    /\ regLast.op = "get_mapper_by_policy"
    /\ regLast.args[1] = "UNKNOWN-123"
    /\ Len(regLast.before) >= 2
    /\ regLast.result = ReturnsNone

(***************************************************************************)
(* Claims about the mapper (checked under SpecMapper).                     *)
(***************************************************************************)
\* The fields a round trip is not required to reproduce.
WithoutServerFields(c) ==
    [c EXCEPT !.id = "", !.created_at = DateTime(0), !.updated_at = DateTime(0)]

\* C2 (as claimed): for every valid Custom Model instance c, to_common(c) succeeds and
\* to_custom(to_common(c)) equals c on every field (contents and order of locations,
\* employees and coverages included), id, created_at and updated_at excepted.
C2_RoundTrip ==
    (CustomInstanceValid(mapIn) /\ mapCommon # Pending)
        => /\ mapCommon.kind = "return"
           /\ mapBack # Pending =>
                  /\ mapBack.kind = "return"
                  /\ WithoutServerFields(mapBack.value) = WithoutServerFields(mapIn)

\* C9: for every Custom Model c, the keys of the extension bag built for c - the
\* custom_fields of to_common(c) - include none of the fields the Common Record
\* standardises (policy_number, the dates, premium, risk_state, risk_zip, status,
\* carrier_code, product_code); those are fields of the Common Record itself.
C9_ExtensionBagIsolation ==
    /\ DOMAIN SerializeCustomFields(mapIn) \cap StandardFieldNames = {}
    /\ mapCommon.kind = "return" =>
           /\ mapCommon.value.custom_fields = SerializeCustomFields(mapIn)
           /\ DOMAIN mapCommon.value.custom_fields \cap StandardFieldNames = {}
           /\ StandardFieldNames \subseteq DOMAIN mapCommon.value

\* C9 witness: to_common returned a record for a policy with two locations, two
\* coverages and an employee class.
C9_Witness ==
    /\ mapCommon.kind = "return"
    /\ Len(mapCommon.value.custom_fields.locations) = 2
    /\ Len(mapCommon.value.custom_fields.coverages) = 2
    /\ Len(mapCommon.value.custom_fields.employees) = 1
    /\ mapCommon.value.premium = mapIn.total_premium

(***************************************************************************)
(* Claims about the repositories (checked under SpecRepo and SpecQuery).   *)
(***************************************************************************)
\* The id a stored record carries (a document of the collection carries it as _id)
StoredId(rec) == IF backend = "json" THEN rec.id ELSE rec["_id"]

\* C3: create of a Common Record that has no id returns a record with a non-empty id
\* and created_at = updated_at = the time of the call, whatever timestamps the input
\* carried, and that is the record it stores (appended to the store).
C3_CreateAssignsIdentity ==
    (repoLast.op = "create" /\ IdIsFalsy(repoLast.args.item.id))
        => /\ repoLast.result.kind = "return"
           /\ ~IdIsFalsy(repoLast.result.value.id)
           /\ repoLast.result.value.created_at = DateTime(repoLast.at)
           /\ repoLast.result.value.updated_at = repoLast.result.value.created_at
           /\ Len(Store) = Len(repoLast.before) + 1
           /\ StoredId(Store[Len(Store)]) = repoLast.result.value.id
           /\ Store[Len(Store)].created_at = DateTimeIso(DateTime(repoLast.at))
           /\ Store[Len(Store)].updated_at = Store[Len(Store)].created_at

\* C3 witness: a record without an id, carrying timestamps of its own that differ
\* from each other and from the clock, was created in a store that held a record.
C3_Witness ==
    /\ repoLast.op = "create"
    /\ IsNone(repoLast.args.item.id)
    /\ repoLast.args.item.created_at # repoLast.args.item.updated_at
    /\ repoLast.args.item.created_at # DateTime(repoLast.at)
    /\ Len(repoLast.before) >= 1
    /\ repoLast.result.kind = "return"

\* C4: whatever updates have been made, every stored record still has the id and the
\* created_at it was created with (whatever id and created_at the records handed to
\* update carried), and an update that returns a record has set the stored record's
\* updated_at to the time of that call.
C4_UpdatePreservesCreation ==
    /\ Len(Store) = Len(born)
    /\ \A i \in DOMAIN Store :
           /\ StoredId(Store[i]) = born[i].id
           /\ Store[i].created_at = born[i].created_at
    /\ (repoLast.op = "update" /\ repoLast.result.kind = "return")
           => LET i == FirstIndex(repoLast.before,
                                  LAMBDA rec : StoredId(rec) = Some(repoLast.args.id))
              IN  /\ i # 0
                  /\ Len(Store) = Len(repoLast.before)
                  /\ Store[i].updated_at = DateTimeIso(DateTime(repoLast.at))
                  /\ repoLast.result.value.updated_at = DateTime(repoLast.at)
                  /\ repoLast.result.value.id = Some(repoLast.args.id)

\* C4 witness: an update with a record that carried another id and another
\* created_at succeeded, later than the creation.
C4_Witness ==
    /\ repoLast.op = "update"
    /\ repoLast.result.kind = "return"
    /\ repoLast.args.item.id # Some(repoLast.args.id)
    /\ LET i == FirstIndex(repoLast.before,
                           LAMBDA rec : StoredId(rec) = Some(repoLast.args.id))
       IN  /\ DateTimeIso(repoLast.args.item.created_at) # Store[i].created_at
           /\ Store[i].updated_at # Store[i].created_at
           /\ Store[i].updated_at # repoLast.before[i].updated_at

\* The field `key` of a stored record, as the Common Record names it
FieldOf(rec, key) == IF backend = "mongo" /\ key = "id" THEN rec["_id"] ELSE rec[key]

FieldNames == DOMAIN ModelDumpJson(BaseCommon)

\* Whether a stored record satisfies a filter entry: its field equals the single
\* value, or is a member of the values
SatisfiesEntry(rec, key, entry) ==
    /\ key \in FieldNames
    /\ IF entry.kind = "list"
       THEN \E i \in DOMAIN entry.values : FieldOf(rec, key) = entry.values[i]
       ELSE FieldOf(rec, key) = entry.value

\* The stored records that satisfy every entry of the filters
Selected(store, filters) ==
    IF IsNone(filters) THEN store
    ELSE SelectSeq(store, LAMBDA rec :
             \A key \in DOMAIN filters[1] : SatisfiesEntry(rec, key, filters[1][key]))

IdsOf(records) == {records[i].id : i \in DOMAIN records}

\* C5 (as claimed): on either backend, count returns the number of stored records
\* that satisfy every filter entry (single value: the field equals it; several
\* values: the field is one of them), and list returns exactly those records (all of
\* them when the page holds them all, never another record).
C5_FilterSemantics ==
    /\ repoLast.op = "count" =>
           repoLast.result = Return(Len(Selected(repoLast.before, repoLast.args.filters)))
    /\ repoLast.op = "list" =>
           LET selected == Selected(repoLast.before, repoLast.args.filters)
               expected == {StoredId(selected[i]) : i \in DOMAIN selected}
           IN  /\ repoLast.result.kind = "return"
               /\ IdsOf(repoLast.result.value) \subseteq expected
               /\ (repoLast.args.skip = 0 /\ repoLast.args.limit >= Len(repoLast.before))
                      => /\ IdsOf(repoLast.result.value) = expected
                         /\ Len(repoLast.result.value) = Len(selected)

(***************************************************************************)
(* Claims about the service (checked under SpecService).                   *)
(***************************************************************************)
\* C10 (as claimed): a create that returns hands back the Custom Model built from
\* the record the repository created - with the id and the created_at / updated_at
\* the repository assigned - and Service.get of the returned id, made immediately
\* afterwards, yields a Custom Model equal to the returned one.
C10_CreateThenGet ==
    (svcLast.op = "create" /\ svcLast.result.kind = "return")
        => /\ svcLast.result.value.id # ""
           /\ Some(svcLast.result.value.id) = StoredId(Store[Len(Store)])
           /\ svcLast.result.value.created_at = DateTime(svcLast.at)
           /\ svcLast.result.value.updated_at = DateTime(svcLast.at)
           /\ ServiceGet(svcLast.result.value.id) = svcLast.result

\* Whether the store held a record with this id
HeldId(store, id) == \E i \in DOMAIN store : StoredId(store[i]) = Some(id)

\* C11 (as claimed): Service.update and Service.get on an id that is not in storage
\* return None - no exception - and leave the stored records exactly as they were.
C11_AbsentIsNotAnError ==
    (svcLast.op \in {"update", "get"} /\ ~HeldId(svcLast.before, svcLast.args.id))
        => /\ svcLast.result = ReturnsNone
           /\ Store = svcLast.before

\* The page of a sequence: skip elements dropped, at most limit of the rest kept
PageOf(xs, skip, limit) ==
    [k \in 1..(IF Len(xs) - skip < 0 THEN 0
               ELSE IF Len(xs) - skip < limit THEN Len(xs) - skip ELSE limit) |->
        xs[skip + k]]

\* C12 (as claimed): Service.list returns the to_custom image of what the repository
\* returned - same length, same order - and the repository's result is a page of the
\* stored records that satisfy the filters: filtering first, then skip dropped and at
\* most limit kept (on the file-based repository, in the order of the file).
C12_ListIsMappedPage ==
    svcLast.op = "list" =>
        LET selected == Selected(svcLast.before, svcLast.args.filters)
            page     == PageOf(selected, svcLast.args.skip, svcLast.args.limit)
            common   == repoLast.result
        IN  /\ repoLast.op = "list" /\ common.kind = "return"
            /\ svcLast.result.kind = "return"
            /\ Len(svcLast.result.value) = Len(common.value)
            /\ \A i \in DOMAIN common.value :
                   Return(svcLast.result.value[i]) = to_custom(common.value[i])
            /\ Len(common.value) = Len(page)
            /\ IdsOf(common.value) \subseteq {StoredId(selected[i]) : i \in DOMAIN selected}
            /\ backend = "json" =>
                   \A i \in DOMAIN page : common.value[i].id = StoredId(page[i])

(***************************************************************************)
(* Claims about decoding stored records (checked under SpecDecode).        *)
(***************************************************************************)
\* The entries the custom_fields handed to to_custom lacks
Lacking == ExtensionKeys \ DOMAIN mapCommon.value.custom_fields

\* The string fields _deserialize_custom_fields defaults to ""
StringEntries ==
    {"business_name", "business_type", "industry_code", "contact_name", "contact_phone",
     "underwriter_code", "underwriter_name", "producer_code", "producer_name"}

\* C13 (as claimed): for a Common Record whose custom_fields lacks optional entries
\* (the others being as the mapper wrote them), to_custom returns a Custom Model - it
\* does not fail - with payment_plan "quarterly", commission_rate zero, the empty
\* sequence for each missing nested collection and "" for each missing string field;
\* the entries present are decoded as before.
C13_ToCustomDefaults ==
    (/\ mapBack # Pending
     /\ Lacking # {}
     /\ mapCommon.value.custom_fields = Without(DecodeBase.custom_fields, Lacking))
        => /\ mapBack.kind = "return"
           /\ "payment_plan" \in Lacking => mapBack.value.payment_plan = "quarterly"
           /\ "commission_rate" \in Lacking => DecIsZero(mapBack.value.commission_rate)
           /\ "locations" \in Lacking => mapBack.value.locations = <<>>
           /\ "employees" \in Lacking => mapBack.value.employees = <<>>
           /\ "coverages" \in Lacking => mapBack.value.coverages = <<>>
           /\ \A k \in StringEntries \cap Lacking : mapBack.value[k] = ""
           /\ \A k \in ExtensionKeys \ Lacking : mapBack.value[k] = DecodeCustom[k]


\* What the repository makes of a stored record when it reads it
FromStore(rec) == IF backend = "json" THEN JsonFromDict(rec) ELSE MongoFromDict(rec)

\* The stored records that carry this id
HeldUnder(store, id) == {i \in DOMAIN store : StoredId(store[i]) = Some(id)}

\* A step in which the service has answered a get or a list
ServiceHasRead ==
    /\ svcLast'.op \in {"get", "list"}
    /\ IF svcLast'.op # svcLast.op THEN TRUE ELSE svcLast' # svcLast

RegistryEmpty ==
    /\ ListRegisteredResult(mappers).keys = <<>>
    /\ \A carrier \in CarrierCodes, product \in ProductCodes :
           /\ GetMapperResult(carrier, product, mappers).kind = "raise"
           /\ GetMapperResult(carrier, product, mappers).exc = "KeyError"
    /\ \A cls \in MapperClasses : RegisterResult(cls, mappers) = ReturnsNone

\* What a step does to the keys list_registered returns
KeysInRegistrationOrder ==
    /\ (regLast'.op = "register" /\ regLast'.result = ReturnsNone)
           => RegisteredKeys(mappers') =
                  Append(RegisteredKeys(mappers), KeyOf(regLast'.args[1]))
    /\ (regLast'.op = "register" /\ regLast'.result # ReturnsNone)
           => RegisteredKeys(mappers') = RegisteredKeys(mappers)
    /\ regLast'.op \in {"get_mapper", "get_mapper_by_policy", "list_registered"}
           => RegisteredKeys(mappers') = RegisteredKeys(mappers)
    /\ regLast'.op = "clear" => RegisteredKeys(mappers') = <<>>

\* C19: a new registry is empty; list_registered returns the registered keys in the
\* order of their registration (a successful register puts its key at the end, a
\* refused one and the look-ups change nothing); after clear list_registered is
\* empty, every get_mapper raises KeyError, and every class - those registered
\* before the clear among them - registers without error.
C19_RegistryLifecycle ==
    /\ [](/\ regLast.op \in {"init", "clear"} => RegistryEmpty
          /\ regLast.op = "list_registered"
                 => /\ regLast.result.keys = RegisteredKeys(regLast.before)
                    /\ mappers = regLast.before)
    /\ [][KeysInRegistrationOrder]_vars

\* clear was called on a registry holding two classes or more, and nothing is left
C19_Witness ==
    /\ regLast.op = "clear"
    /\ Len(regLast.before) >= 2
    /\ RegistryEmpty

(***************************************************************************)
(* Claims about delete (checked under SpecServiceDelete).                  *)
(***************************************************************************)
\* C18: Service.delete(id) returns True when a record with that id was stored before
\* the call and False when none was (no exception, the store untouched); once it has
\* returned True no record carries the id, and the store holds fewer records than
\* before; and as long as no record carries an id - so until a create stores it
\* again - exists(id) is False, get(id) is None, and count() is the number of records.
C18_DeleteRemoves ==
    /\ svcLast.op = "delete"
           => /\ svcLast.result = Return(HeldId(svcLast.before, svcLast.args.id))
              /\ IF HeldId(svcLast.before, svcLast.args.id)
                 THEN /\ ~HeldId(Store, svcLast.args.id)
                      /\ Len(Store) < Len(svcLast.before)
                      /\ RepositoryCount(None).value < Len(svcLast.before)
                 ELSE Store = svcLast.before
    /\ \A id \in RepoIds :
           ~HeldId(Store, id) => /\ RepositoryExists(id) = Return(FALSE)
                                 /\ ServiceGet(id) = ReturnsNone
    /\ svcLast.op = "exists"
           => svcLast.result = Return(HeldId(svcLast.before, svcLast.args.id))
    /\ (svcLast.op = "get" /\ ~HeldId(svcLast.before, svcLast.args.id))
           => svcLast.result = ReturnsNone
    /\ RepositoryCount(None) = Return(Len(Store))

\* The store held two records; delete of an id one of them carried has returned True,
\* fewer records are left and none carries the id
C18_Witness ==
    /\ svcLast.op = "delete"
    /\ svcLast.result = Return(TRUE)
    /\ Len(svcLast.before) = 2
    /\ Len(Store) < 2
    /\ ~HeldId(Store, svcLast.args.id)

\* C20 (as claimed): on the file-based repository no two stored records carry the
\* same id, whatever creates, updates and deletes have been called - a create whose
\* model carries the id of a stored record included.
C20_FileIdsUnique ==
    backend = "json"
        => \A i, j \in DOMAIN file : file[i].id = file[j].id => i = j

(***************************************************************************)
(* Claims about the order of list (checked under SpecOrder).               *)
(***************************************************************************)
\* C17 (as claimed): list returns the records newest-created-first - a record whose
\* created_at is later stands before every record whose created_at is earlier, also
\* after updates - and a list call repeated with the same filters on the unchanged
\* store returns the records in the same order.
C17_ListNewestFirstAndStable ==
    /\ [](repoLast.op = "list" /\ repoLast.result.kind = "return"
            => \A i, j \in DOMAIN repoLast.result.value :
                   repoLast.result.value[i].created_at.us >
                       repoLast.result.value[j].created_at.us
                   => i < j)
    /\ [][(/\ repoLast.op = "list"
           /\ repoLast'.op = "list"
           /\ repoLast'.args = repoLast.args
           /\ repoLast'.before = repoLast.before)
              => repoLast'.result = repoLast.result]_vars

(***************************************************************************)
(* Claims about the data file (checked under SpecFileFault, SpecWriters).  *)
(***************************************************************************)
\* A step in which the repository has answered a call
RepoHasCalled ==
    /\ repoLast'.op # "init"
    /\ IF repoLast'.op # repoLast.op THEN TRUE ELSE repoLast' # repoLast

\* C15 (as claimed): a call of the file-based repository that finds the data file
\* missing or not decodable reports an error to its caller; it returns nothing
\* computed from data put in the file's place, and it leaves the file as it found it.
C15_StorageErrorsPropagate ==
    [][(disk # "ok" /\ RepoHasCalled)
           => /\ repoLast'.result.kind = "raise"
              /\ file' = file
              /\ disk' = disk]_vars


\* The call has returned success: the record created or updated, or True from delete
Succeeded(call) ==
    /\ call.pc = "done"
    /\ call.result.kind = "return"
    /\ IF call.op = "delete" THEN call.result.value = TRUE ELSE TRUE

\* Both processes read the file before either wrote it, and first wrote before last
Overlapped(first, last) ==
    /\ first # last
    /\ procs[first].pc = "done"
    /\ procs[last].pc = "done"
    /\ procs[first].seen = 0
    /\ procs[last].seen = 0
    /\ procs[first].wrote = 1
    /\ procs[last].wrote = 2

\* C16: a mutating call of the file-based repository reads the whole file and later
\* writes the whole file, and nothing holds the file in between: when two processes'
\* calls have both read before either wrote, both return success, and the file ends
\* as the list the later writer made from what it had read - the same list the earlier
\* writer had read - so it holds the later call's change alone (last write wins).
C16_LastWriteWins ==
    \A first \in Procs, last \in Procs :
        Overlapped(first, last)
            => /\ Succeeded(procs[first])
               /\ Succeeded(procs[last])
               /\ procs[first].data = procs[last].data
               /\ file = ProcWritten(procs[last].op, procs[last].args, procs[last].data,
                                     procs[last].at)

\* Two processes have each created a record of their own, both calls have returned
\* the record created, and the file holds one record more than each had read: the
\* later writer's, the earlier writer's being nowhere in it
C16_Witness ==
    \E first \in Procs, last \in Procs :
        /\ Overlapped(first, last)
        /\ procs[first].op = "create"
        /\ procs[last].op = "create"
        /\ Succeeded(procs[first])
        /\ Succeeded(procs[last])
        /\ procs[first].args.item[1].id # procs[last].args.item[1].id
        /\ Len(file) = Len(procs[first].data) + 1
        /\ file[Len(file)].id = procs[last].args.item[1].id
        /\ \A i \in DOMAIN file : file[i].id # procs[first].args.item[1].id


\* The places of the records of the file that do not carry the id
Others(id) == {i \in DOMAIN file : file[i].id # Some(id)}

\* The id is in no record the call gets to read
AbsentFromFile(id) == disk # "ok" \/ Others(id) = DOMAIN file

\* What a step of update(id, r) leaves of the file
UpdateFrame(id) ==
    IF AbsentFromFile(id)
    THEN /\ repoLast'.result = ReturnsNone
         /\ file' = file
         /\ disk' = disk
    ELSE /\ Len(file') = Len(file)
         /\ \A i \in Others(id) : file'[i] = file[i]
         /\ \A i \in DOMAIN file : file'[i].id = file[i].id
         /\ Cardinality({i \in DOMAIN file : file'[i] # file[i]}) <= 1

\* What a step of delete(id) leaves of the file
DeleteFrame(id) ==
    IF AbsentFromFile(id)
    THEN /\ repoLast'.result = Return(FALSE)
         /\ file' = file
         /\ disk' = disk
    ELSE /\ Len(file') = Cardinality(Others(id))
         /\ \A i \in Others(id) :
                file'[Cardinality({j \in Others(id) : j <= i})] = file[i]

\* C21: on the file-based repository update(id, r) and delete(id) touch only records
\* carrying that id: every other record keeps all its values and its place among the
\* others, an updated record stays where it was in the list, and an update or
\* delete of an id no record carries leaves the file as it was, unwritten.
C21_MutationFrame ==
    [][/\ (backend = "json" /\ RepoHasCalled /\ repoLast'.op = "update")
              => UpdateFrame(repoLast'.args.id)
       /\ (backend = "json" /\ RepoHasCalled /\ repoLast'.op = "delete")
              => DeleteFrame(repoLast'.args.id)]_vars

\* update has rewritten the first of two records, which carry different ids; the
\* second is as it was
C21_Witness ==
    /\ repoLast.op = "update"
    /\ repoLast.result.kind = "return"
    /\ Len(repoLast.before) = 2
    /\ repoLast.before[1].id = Some(repoLast.args.id)
    /\ repoLast.before[2].id # Some(repoLast.args.id)
    /\ Len(file) = 2
    /\ file[1] # repoLast.before[1]
    /\ file[1].id = Some(repoLast.args.id)
    /\ file[2] = repoLast.before[2]


(***************************************************************************)
(* Claims about clients of one collection (checked under SpecClients).     *)
(***************************************************************************)
\* No document of the collection carries the id
AbsentFromCollection(id) == \A i \in DOMAIN coll : coll[i]["_id"] # Some(id)

CreateAnswered ==
    /\ httpIn'.method = "POST"
    /\ httpIn'.path = <<"policies">>
    /\ \E policy \in CreatePayloads : httpIn'.body = <<policy>>
    /\ IF httpIn' # httpIn THEN TRUE
       ELSE IF httpLast'.status # httpLast.status THEN TRUE
       ELSE file' # file

\* C23 (as claimed): every POST /policies with a body the create schema accepts is
\* handled by create_policy, which hands a model to Service.create and answers 201
\* with the created policy, whose id is a non-empty one the server assigned; the
\* data file then holds exactly one record more, the one with that id, after the
\* records it held.
C23_CreateRouteAddsOneRecord ==
    [][CreateAnswered =>
          /\ httpLast'.handler = "create_policy"
          /\ httpLast'.status = 201
          /\ svcLast'.op = "create"
          /\ IF httpLast'.body.kind = "return"
             THEN /\ httpLast'.body.value.id # ""
                  /\ Len(file') = Len(file) + 1
                  /\ SubSeq(file', 1, Len(file)) = file
                  /\ file'[Len(file')].id = Some(httpLast'.body.value.id)
             ELSE FALSE]_vars

\* A GET /policies/count is answered in this step
CountAnswered ==
    /\ httpIn'.method = "GET"
    /\ httpIn'.path = <<"policies", "count">>
    /\ IF httpIn' # httpIn THEN TRUE
       ELSE IF svcLast'.op # svcLast.op THEN TRUE
       ELSE svcLast' # svcLast

\* C24 (as claimed): GET /policies/count is handled by count_policies and answered
\* 200 with the number of stored records that match the filters of the query; it is
\* not handled by get_policy with "count" for the policy id.
C24_CountRouteCounts ==
    [][CountAnswered =>
          /\ httpLast'.handler = "count_policies"
          /\ httpLast'.status = 200
          /\ httpLast'.body =
                 Return([count |-> Len(JsonFiltered(file, QueryFilters(httpIn'.query)))])]_vars

=============================================================================
